---- MODULE Spec2Model ----
(***************************************************************************)
(* Otodom crawl pipeline: a shared Work Queue (RedisQueue), the discovery  *)
(* Coordinator, the detail-fetch Workers and the missing-property          *)
(* Verifier.  Every await of the TypeScript code is one step of the        *)
(* process that executes it, so that the processes interleave exactly at   *)
(* the points where the event loop / the separate OS processes can.        *)
(***************************************************************************)
EXTENDS Integers, Sequences, FiniteSets, TLC

\* ---------------------------------------------------------------- bounds
NumIds == 2            \* listing ids are 1..NumIds
NumPayloads == 2       \* distinct raw payloads the source can serve
NumWorkers == 2        \* worker processes
NumVerifiers == 1      \* verifier processes
NumPassWorkers == 1    \* workers that run while a discovery pass is under way
NumPartitions == 2     \* (city, listingType) partitions of one discovery pass
MaxTotal == 3          \* largest total a search page advertises
MaxFaults == 1         \* infrastructure errors (queue transport / sink) injected in one run
MaxTime == 2           \* the clock runs 0..MaxTime
MaxEmptyChecks == 2    \* stands for maxEmptyChecks (10 in the code), scaled down

\* ---------------------------------------------------- program constants
MaxRetries == 3        \* requeueWithRetry(id, 3)
PageLimit == 1         \* page size of discoverCity (limit = 50 in the code), scaled down
StaleAfter == 1        \* staleness threshold (12 hours in the code), in clock ticks
StatsEvery == 1        \* cities between two progress reports (5 in the code), scaled down

Ids == 1..NumIds
Payloads == 1..NumPayloads
Workers == 1..NumWorkers
Verifiers == 1..NumVerifiers
Partitions == 1..NumPartitions
NoId == 0
NoSnap == 0

\* What one URL form of a listing answers: a page with ad data, a page
\* without (or with unparsable) __NEXT_DATA__/ad, HTTP 404, HTTP 403, or a
\* network error / timeout / 5xx.
Responses == {"ad", "nodata", "404", "403", "error"}

\* The answers of the two URL forms as the Worker sees them: the second URL is
\* requested only when the first neither returned ad data nor answered 403.
FetchAnswers ==
  {<<r1, r2>> : r1 \in {"nodata", "404", "error"}, r2 \in Responses}
    \cup {<<"ad", "unused">>, <<"403", "unused">>}

\* The same for the Verifier, which stops at the first 404, 403 or ad data.
VerifyAnswers ==
  {<<r1, r2>> : r1 \in {"nodata", "error"}, r2 \in Responses}
    \cup {<<"ad", "unused">>, <<"403", "unused">>, <<"404", "unused">>}

VARIABLES
  \* Work Queue (RedisQueue 'otodom')
  pending, discovered, processed, snapshot, lastSeen, retryCount, failedIds,
  missing, verifiedInactive,
  \* environment
  now, faults, apiKey,
  \* Sink (Core Service)
  ingestCount, sinkPayload, inactiveCount,
  \* Workers
  wpc, wid, wprop, wfetch, hasChanged, wsent, wout, isRunning, emptyQueueCount,
  processedCount, failedCount, changedCount, unchangedCount, wclosed,
  \* Verifier
  vpc, vid, vresp, vRunning, vEmpty, verifiedInactiveCount, foundActiveCount, vclosed,
  \* Coordinator
  cpc, cpart, coffset, ctotal, cids, cadded, cmissing,
  \* history: payload and time of the last successful detail fetch of each id
  lastFetched, lastFetchedAt,
  \* what the source answers for each id when its answers are held fixed
  fetchPlan,
  \* a client of the Work Queue calling MarkProcessed
  markCalls,
  \* OtodomScraperV3 (scrapeAllCities / scrapeCity)
  spc, allIds, sidx, retries, attempts, processedIds, resultScraped, resultFailed,
  fetches,
  \* OtodomScraper.scrape() started by the CLI
  gpc, argsLimit, page, totalPages, allProperties,
  \* history, kept in the runs that have the ledger switched on: the delays
  \* (ms) Workers have waited since an id was re-queued, the ids the
  \* Coordinator has read on fetched pages and those it has passed to
  \* pushListingIds
  ledger, waited, observed, offered,
  \* the two detail readers put side by side: what the two URL forms of a
  \* listing answer, what OtodomWorker.fetchPropertyDetail and what
  \* MissingPropertyVerifier.verifyProperty made of it
  cmpId, urlAnswers, fetched, verified,
  \* one top-level call of BaseApiClient.request
  rpc, retryAttempts, attempt, requests, lastResponse

queueVars == <<pending, discovered, processed, snapshot, lastSeen, retryCount,
               failedIds, missing, verifiedInactive>>
envVars == <<now, faults, apiKey>>
sinkVars == <<ingestCount, sinkPayload, inactiveCount>>
workerVars == <<wpc, wid, wprop, wfetch, hasChanged, wsent, wout, isRunning, emptyQueueCount,
                processedCount, failedCount, changedCount, unchangedCount, wclosed>>
verifierVars == <<vpc, vid, vresp, vRunning, vEmpty, verifiedInactiveCount,
                  foundActiveCount, vclosed>>
coordVars == <<cpc, cpart, coffset, ctotal, cids, cadded, cmissing>>
histVars == <<lastFetched, lastFetchedAt>>
apiVars == <<markCalls>>
scraperVars == <<spc, allIds, sidx, retries, attempts, processedIds, resultScraped,
                 resultFailed, fetches>>
cliVars == <<gpc, argsLimit, page, totalPages, allProperties>>
planVars == <<fetchPlan>>
delayVars == <<ledger, waited>>
obsVars == <<observed, offered>>
cmpVars == <<cmpId, urlAnswers, fetched, verified>>
reqVars == <<rpc, retryAttempts, attempt, requests, lastResponse>>
lateVars == <<delayVars, obsVars, cmpVars, reqVars>>
extraVars == <<histVars, planVars, lateVars, apiVars, scraperVars, cliVars>>
vars == <<queueVars, envVars, sinkVars, workerVars, verifierVars, coordVars, extraVars>>

\* ------------------------------------------------------------ helpers
SeqToSet(s) == {s[i] : i \in 1..Len(s)}

Occurrences(s, x) == Cardinality({i \in 1..Len(s) : s[i] = x})

RECURSIVE SumOver(_, _)
SumOver(f, S) ==
  IF S = {} THEN 0
  ELSE LET x == CHOOSE y \in S : TRUE IN f[x] + SumOver(f, S \ {x})

\* ------------------------------------------------------ Work Queue (§4.1)
\* Mutant of pushListingIds: every id is appended, known or not.
RECURSIVE pushListingIdsUnfiltered(_, _, _)
pushListingIdsUnfiltered(pend, disc, ids) ==
  IF ids = << >> THEN [pending |-> pend, discovered |-> disc, added |-> 0]
  ELSE LET rest == pushListingIdsUnfiltered(Append(pend, Head(ids)),
                                            disc \cup {Head(ids)}, Tail(ids))
       IN [rest EXCEPT !.added = @ + 1]

\* EnqueueIfNew: ids already known are filtered out, the rest is appended to
\* the pending channel; the count actually added is returned.
RECURSIVE pushListingIds(_, _, _)
pushListingIds(pend, disc, ids) ==
  IF ids = << >> THEN [pending |-> pend, discovered |-> disc, added |-> 0]
  ELSE LET id == Head(ids)
           new == id \notin disc
           rest == pushListingIds(IF new THEN Append(pend, id) ELSE pend,
                                  disc \cup {id}, Tail(ids))
       IN [rest EXCEPT !.added = @ + (IF new THEN 1 ELSE 0)]

\* Mutant of markProcessed: a second call for an id takes it out of the set again.
markProcessedToggle(proc, id) == IF id \in proc THEN proc \ {id} ELSE proc \cup {id}

\* MarkProcessed: the id joins the processed set (a set add).
markProcessed(proc, id) == proc \cup {id}

\* Mutant of hasPropertyChanged: the payload is compared with the snapshots of all ids.
hasPropertyChangedAnyId(snap, id, raw) == \A j \in DOMAIN snap : snap[j] # raw

\* HasChanged: compares with the stored snapshot; no snapshot counts as changed.
hasPropertyChanged(snap, id, raw) == snap[id] # raw

\* RequeueWithRetry: increments the retry counter; below maxAttempts the id
\* goes back to pending, otherwise the id leaves all transient state, is
\* recorded as failed and false is reported.
requeueWithRetry(pend, retry, failed, id, maxAttempts) ==
  LET n == retry[id] + 1 IN
  IF n < maxAttempts
  THEN [pending |-> Append(pend, id), retryCount |-> [retry EXCEPT ![id] = n],
        failedIds |-> failed, requeued |-> TRUE]
  ELSE [pending |-> pend, retryCount |-> [retry EXCEPT ![id] = 0],
        failedIds |-> failed \cup {id}, requeued |-> FALSE]

\* FindStale: processed ids whose last_seen is older than the threshold and
\* that are not verified inactive.
findMissingProperties(proc, seen, inactive, t, threshold) ==
  {id \in proc : t - seen[id] >= threshold /\ id \notin inactive}

\* PushMissing: appends the ids not already in the missing channel and not
\* verified inactive; returns the new channel.
RECURSIVE pushToMissingQueue(_, _, _)
pushToMissingQueue(miss, inactive, S) ==
  IF S = {} THEN miss
  ELSE LET id == CHOOSE x \in S : \A y \in S : x <= y
           m2 == IF id \in inactive \/ id \in SeqToSet(miss) THEN miss ELSE Append(miss, id)
       IN pushToMissingQueue(m2, inactive, S \ {id})

\* --------------------------------------------------------- fault model
\* A queue command of worker w throws when its connection has been closed by
\* stop(), and may throw on a transport error (at most MaxFaults in a run).
QWorks(w) == ~wclosed[w]
QFails(w) == wclosed[w] \/ faults < MaxFaults
Fault(w) == faults' = IF wclosed[w] THEN faults ELSE faults + 1
SinkFails == faults < MaxFaults

\* The while (this.isRunning) test that follows the end of an iteration.
LoopHead(w) == IF isRunning[w] THEN "pop" ELSE "stopped"

\* ------------------------------------------------------------ delays
\* config.requestDelayMs, the base delay (default of REQUEST_DELAY_MS).
RequestDelayMs == 2000

\* randomDelay(min, max): a wait of a random length between min and max
\* milliseconds; the two ends stand for the range.
randomDelay(min, max) == {min, max}

\* start(): randomDelay(requestDelayMs * 0.6, requestDelayMs * 1.6)
RateLimitDelays == randomDelay((RequestDelayMs * 6) \div 10, (RequestDelayMs * 16) \div 10)

\* start(), catch block: randomDelay(5000, 10000)
LoopBackoffDelays == randomDelay(5000, 10000)

\* The ledger stops adding at the longest delay a retry can call for.
LedgerCap == RequestDelayMs * 2 ^ (MaxRetries - 2)

\* The ledger after a Worker has waited d milliseconds: the wait counts for
\* every id that sits re-queued in the pending list.
waitedAfter(d) ==
  [i \in Ids |->
     IF ledger /\ retryCount[i] >= 1 /\ i \in SeqToSet(pending)
     THEN (IF waited[i] + d > LedgerCap THEN LedgerCap ELSE waited[i] + d)
     ELSE waited[i]]

\* ------------------------------------------------------------ Worker
\* The Detail Fetcher outcome (Found | NotFound | Ambiguous | TransientError)
\* that the answers of the two URL forms amount to: ad data is Found, a 403
\* is Ambiguous, 404 on both URL forms is the definitive NotFound, network
\* errors / timeouts / pages that cannot be parsed on both are a
\* TransientError, and one 404 beside one such error is "Mixed".
FetchOutcome(rs) ==
  CASE rs[1] = "ad" \/ rs[2] = "ad" -> "Found"
    [] rs[1] = "403" \/ rs[2] = "403" -> "Ambiguous"
    [] rs[1] = "404" /\ rs[2] = "404" -> "NotFound"
    [] rs[1] \in {"error", "nodata"} /\ rs[2] \in {"error", "nodata"} -> "TransientError"
    [] OTHER -> "Mixed"

\* Mutant of fetchPropertyDetail: a 403 is passed over like a 404.
fetchPropertyDetail403Skipped(r1, r2) ==
  IF r1 = "ad" THEN "found"
  ELSE IF r2 = "ad" THEN "found"
  ELSE "null"

\* fetchPropertyDetail over the answers of the two URL forms: ad data is
\* returned, 403 throws, everything else moves on to the next URL, and null
\* is returned when both URLs are used up.
fetchPropertyDetail(r1, r2) ==
  IF r1 = "ad" THEN "found"
  ELSE IF r1 = "403" THEN "throw"
  ELSE IF r2 = "ad" THEN "found"
  ELSE IF r2 = "403" THEN "throw"
  ELSE "null"

\* Mutant of WorkerPop: a poll that yields an id does not reset the empty-poll counter.
WorkerPopKeepsCount(w) ==
  /\ wpc[w] = "pop"
  /\ \/ /\ QFails(w) /\ Fault(w)
        /\ wpc' = [wpc EXCEPT ![w] = "backoff"]
        /\ UNCHANGED <<pending, wid, emptyQueueCount>>
     \/ /\ QWorks(w) /\ pending = << >>
        /\ emptyQueueCount' = [emptyQueueCount EXCEPT ![w] = @ + 1]
        /\ IF emptyQueueCount[w] + 1 >= MaxEmptyChecks
           THEN /\ wpc' = [wpc EXCEPT ![w] = "stopped"]
                /\ UNCHANGED faults
           ELSE \* getStats() is awaited before the continue
                \/ /\ wpc' = [wpc EXCEPT ![w] = LoopHead(w)]
                   /\ UNCHANGED faults
                \/ /\ faults < MaxFaults /\ faults' = faults + 1
                   /\ wpc' = [wpc EXCEPT ![w] = "backoff"]
        /\ UNCHANGED <<pending, wid>>
     \/ /\ QWorks(w) /\ pending # << >>
        /\ pending' = Tail(pending)
        /\ wid' = [wid EXCEPT ![w] = Head(pending)]
        /\ emptyQueueCount' = emptyQueueCount
        /\ wpc' = [wpc EXCEPT ![w] = "isProcessed"]
        /\ UNCHANGED faults
  /\ UNCHANGED <<hasChanged, wout, discovered, processed, snapshot, lastSeen, retryCount, failedIds,
                 missing, verifiedInactive, now, apiKey, sinkVars,
                 wprop, wfetch, wsent, isRunning, processedCount, failedCount,
                 changedCount, unchangedCount, wclosed, verifierVars, coordVars>>
  /\ UNCHANGED extraVars

\* start(): await this.queue.popListingId(5) and the branch on its result.
WorkerPop(w) ==
  /\ wpc[w] = "pop"
  /\ \/ /\ QFails(w) /\ Fault(w)
        /\ wpc' = [wpc EXCEPT ![w] = "backoff"]
        /\ UNCHANGED <<pending, wid, emptyQueueCount>>
     \/ /\ QWorks(w) /\ pending = << >>
        /\ emptyQueueCount' = [emptyQueueCount EXCEPT ![w] = @ + 1]
        /\ IF emptyQueueCount[w] + 1 >= MaxEmptyChecks
           THEN /\ wpc' = [wpc EXCEPT ![w] = "stopped"]
                /\ UNCHANGED faults
           ELSE \* getStats() is awaited before the continue
                \/ /\ wpc' = [wpc EXCEPT ![w] = LoopHead(w)]
                   /\ UNCHANGED faults
                \/ /\ faults < MaxFaults /\ faults' = faults + 1
                   /\ wpc' = [wpc EXCEPT ![w] = "backoff"]
        /\ UNCHANGED <<pending, wid>>
     \/ /\ QWorks(w) /\ pending # << >>
        /\ pending' = Tail(pending)
        /\ wid' = [wid EXCEPT ![w] = Head(pending)]
        /\ emptyQueueCount' = [emptyQueueCount EXCEPT ![w] = 0]
        /\ wpc' = [wpc EXCEPT ![w] = "isProcessed"]
        /\ UNCHANGED faults
  /\ UNCHANGED <<hasChanged, wout, discovered, processed, snapshot, lastSeen, retryCount, failedIds,
                 missing, verifiedInactive, now, apiKey, sinkVars,
                 wprop, wfetch, wsent, isRunning, processedCount, failedCount,
                 changedCount, unchangedCount, wclosed, verifierVars, coordVars>>
  /\ UNCHANGED extraVars

\* Mutant of WorkerIsProcessed: the answer is ignored and the id is fetched anyway.
WorkerIsProcessedIgnored(w) ==
  /\ wpc[w] = "isProcessed"
  /\ \/ /\ QFails(w) /\ Fault(w)
        /\ wpc' = [wpc EXCEPT ![w] = "catch"]
     \/ /\ QWorks(w) /\ UNCHANGED faults
        /\ wpc' = [wpc EXCEPT ![w] = "fetch"]
  /\ UNCHANGED <<hasChanged, queueVars, now, apiKey, sinkVars, wid, wprop, wfetch, wsent, isRunning,
                 emptyQueueCount, processedCount, failedCount, changedCount,
                 unchangedCount, wclosed, wout, verifierVars, coordVars>>
  /\ UNCHANGED extraVars

\* processListing: await this.queue.isProcessed(id)
WorkerIsProcessed(w) ==
  /\ wpc[w] = "isProcessed"
  /\ \/ /\ QFails(w) /\ Fault(w)
        /\ wpc' = [wpc EXCEPT ![w] = "catch"]
        /\ UNCHANGED wout
     \/ /\ QWorks(w) /\ UNCHANGED faults
        /\ wpc' = [wpc EXCEPT ![w] = IF wid[w] \in processed THEN "delay" ELSE "fetch"]
        /\ wout' = [wout EXCEPT ![w] = IF wid[w] \in processed THEN "skipped" ELSE @]
  /\ UNCHANGED <<hasChanged, queueVars, now, apiKey, sinkVars, wid, wprop, wfetch, wsent, isRunning,
                 emptyQueueCount, processedCount, failedCount, changedCount,
                 unchangedCount, wclosed, verifierVars, coordVars>>
  /\ UNCHANGED extraVars

\* processListing: await this.fetchPropertyDetail(id) and the null test
WorkerFetch(w) ==
  /\ wpc[w] = "fetch"
  /\ \E rs \in FetchAnswers, p \in Payloads :
       LET res == fetchPropertyDetail(rs[1], rs[2]) IN
       /\ wfetch' = [wfetch EXCEPT ![w] = FetchOutcome(rs)]
       /\ wprop' = [wprop EXCEPT ![w] = IF res = "found" THEN p ELSE NoSnap]
       /\ wpc' = [wpc EXCEPT ![w] = CASE res = "found" -> "hasChanged"
                                      [] res = "throw" -> "catch"
                                      [] OTHER -> "markFailed"]
       /\ lastFetched' = IF res = "found" THEN [lastFetched EXCEPT ![wid[w]] = p]
                         ELSE lastFetched
       /\ lastFetchedAt' = IF res = "found" THEN [lastFetchedAt EXCEPT ![wid[w]] = now]
                           ELSE lastFetchedAt
  /\ UNCHANGED <<hasChanged, wout, queueVars, envVars, sinkVars, wid, wsent, isRunning,
                 emptyQueueCount, processedCount, failedCount, changedCount,
                 unchangedCount, wclosed, verifierVars, coordVars>>
  /\ UNCHANGED <<planVars, lateVars, apiVars, scraperVars, cliVars>>

\* Mutant of WorkerMarkFailed: the Worker marks an id it did not find inactive in the Core Service.
WorkerMarkFailedDeactivates(w) ==
  /\ wpc[w] = "markFailed"
  /\ \/ /\ QFails(w) /\ Fault(w)
        /\ wpc' = [wpc EXCEPT ![w] = "catch"]
        /\ UNCHANGED <<failedIds, wout, inactiveCount>>
     \/ /\ QWorks(w) /\ UNCHANGED faults
        /\ failedIds' = failedIds \cup {wid[w]}
        /\ inactiveCount' = [inactiveCount EXCEPT ![wid[w]] = @ + 1]
        /\ wout' = [wout EXCEPT ![w] = "notfound"]
        /\ wpc' = [wpc EXCEPT ![w] = "delay"]
  /\ UNCHANGED <<wfetch, hasChanged, pending, discovered, processed, snapshot, lastSeen, retryCount,
                 missing, verifiedInactive, now, apiKey, ingestCount, sinkPayload, wid, wprop, wsent, isRunning, emptyQueueCount, processedCount, failedCount,
                 changedCount, unchangedCount, wclosed, verifierVars, coordVars>>
  /\ UNCHANGED extraVars

\* Mutant of WorkerMarkFailed: an id that was not found sends the Worker straight to its next pop.
WorkerMarkFailedNoDelay(w) ==
  /\ wpc[w] = "markFailed"
  /\ \/ /\ QFails(w) /\ Fault(w)
        /\ wpc' = [wpc EXCEPT ![w] = "catch"]
        /\ UNCHANGED <<failedIds, wout>>
     \/ /\ QWorks(w) /\ UNCHANGED faults
        /\ failedIds' = failedIds \cup {wid[w]}
        /\ wout' = [wout EXCEPT ![w] = "notfound"]
        /\ wpc' = [wpc EXCEPT ![w] = "pop"]
  /\ UNCHANGED <<wfetch, hasChanged, pending, discovered, processed, snapshot, lastSeen, retryCount,
                 missing, verifiedInactive, now, apiKey, sinkVars, wid, wprop, wsent, isRunning, emptyQueueCount, processedCount, failedCount,
                 changedCount, unchangedCount, wclosed, verifierVars, coordVars>>
  /\ UNCHANGED extraVars

\* processListing: await this.queue.markFailed(id, 'Not found'); return false
WorkerMarkFailed(w) ==
  /\ wpc[w] = "markFailed"
  /\ \/ /\ QFails(w) /\ Fault(w)
        /\ wpc' = [wpc EXCEPT ![w] = "catch"]
        /\ UNCHANGED <<failedIds, wout>>
     \/ /\ QWorks(w) /\ UNCHANGED faults
        /\ failedIds' = failedIds \cup {wid[w]}
        /\ wout' = [wout EXCEPT ![w] = "notfound"]
        /\ wpc' = [wpc EXCEPT ![w] = "delay"]
  /\ UNCHANGED <<wfetch, hasChanged, pending, discovered, processed, snapshot, lastSeen, retryCount,
                 missing, verifiedInactive, now, apiKey, sinkVars, wid, wprop, wsent, isRunning, emptyQueueCount, processedCount, failedCount,
                 changedCount, unchangedCount, wclosed, verifierVars, coordVars>>
  /\ UNCHANGED extraVars

\* Mutant of WorkerHasChanged: an unchanged payload is sent to the Core Service all the same.
WorkerHasChangedAlwaysSends(w) ==
  /\ wpc[w] = "hasChanged"
  /\ \/ /\ QFails(w) /\ Fault(w)
        /\ wpc' = [wpc EXCEPT ![w] = "catch"]
        /\ UNCHANGED <<unchangedCount, hasChanged>>
     \/ /\ QWorks(w) /\ UNCHANGED faults
        /\ hasChanged' = [hasChanged EXCEPT ![w] =
              IF hasPropertyChanged(snapshot, wid[w], wprop[w]) THEN "true" ELSE "false"]
        /\ IF hasPropertyChanged(snapshot, wid[w], wprop[w])
           THEN /\ wpc' = [wpc EXCEPT ![w] = IF apiKey THEN "send" ELSE "store"]
                /\ UNCHANGED unchangedCount
           ELSE /\ unchangedCount' = [unchangedCount EXCEPT ![w] = @ + 1]
                /\ wpc' = [wpc EXCEPT ![w] = IF apiKey THEN "send" ELSE "mark"]
  /\ UNCHANGED <<wfetch, wout, queueVars, now, apiKey, sinkVars, wid, wprop, wsent, isRunning,
                 emptyQueueCount, processedCount, failedCount, changedCount,
                 wclosed, verifierVars, coordVars>>
  /\ UNCHANGED extraVars

\* Mutant of WorkerHasChanged: an unchanged payload ends processListing without markProcessed.
WorkerHasChangedUnchangedReturns(w) ==
  /\ wpc[w] = "hasChanged"
  /\ \/ /\ QFails(w) /\ Fault(w)
        /\ wpc' = [wpc EXCEPT ![w] = "catch"]
        /\ UNCHANGED <<unchangedCount, hasChanged>>
     \/ /\ QWorks(w) /\ UNCHANGED faults
        /\ hasChanged' = [hasChanged EXCEPT ![w] =
              IF hasPropertyChanged(snapshot, wid[w], wprop[w]) THEN "true" ELSE "false"]
        /\ IF hasPropertyChanged(snapshot, wid[w], wprop[w])
           THEN /\ wpc' = [wpc EXCEPT ![w] = IF apiKey THEN "send" ELSE "store"]
                /\ UNCHANGED unchangedCount
           ELSE /\ unchangedCount' = [unchangedCount EXCEPT ![w] = @ + 1]
                /\ wpc' = [wpc EXCEPT ![w] = "delay"]
  /\ UNCHANGED <<wfetch, wout, queueVars, now, apiKey, sinkVars, wid, wprop, wsent, isRunning,
                 emptyQueueCount, processedCount, failedCount, changedCount,
                 wclosed, verifierVars, coordVars>>
  /\ UNCHANGED extraVars

\* processListing: await this.queue.hasPropertyChanged(id, property.rawData)
\* and the branch on it (unchangedCount++ / transformToStandard, config.apiKey)
WorkerHasChanged(w) ==
  /\ wpc[w] = "hasChanged"
  /\ \/ /\ QFails(w) /\ Fault(w)
        /\ wpc' = [wpc EXCEPT ![w] = "catch"]
        /\ UNCHANGED <<unchangedCount, hasChanged>>
     \/ /\ QWorks(w) /\ UNCHANGED faults
        /\ hasChanged' = [hasChanged EXCEPT ![w] =
              IF hasPropertyChanged(snapshot, wid[w], wprop[w]) THEN "true" ELSE "false"]
        /\ IF hasPropertyChanged(snapshot, wid[w], wprop[w])
           THEN /\ wpc' = [wpc EXCEPT ![w] = IF apiKey THEN "send" ELSE "store"]
                /\ UNCHANGED unchangedCount
           ELSE /\ unchangedCount' = [unchangedCount EXCEPT ![w] = @ + 1]
                /\ wpc' = [wpc EXCEPT ![w] = "mark"]
  /\ UNCHANGED <<wfetch, wout, queueVars, now, apiKey, sinkVars, wid, wprop, wsent, isRunning,
                 emptyQueueCount, processedCount, failedCount, changedCount,
                 wclosed, verifierVars, coordVars>>
  /\ UNCHANGED extraVars

\* processListing: await sendToCoreService({... status: 'active'})
WorkerSend(w) ==
  /\ wpc[w] = "send"
  /\ \/ /\ SinkFails /\ faults' = faults + 1
        /\ wpc' = [wpc EXCEPT ![w] = "catch"]
        /\ UNCHANGED <<ingestCount, sinkPayload, wsent>>
     \/ /\ UNCHANGED faults
        /\ ingestCount' = [ingestCount EXCEPT ![wid[w]] = @ + 1]
        /\ sinkPayload' = [sinkPayload EXCEPT ![wid[w]] = wprop[w]]
        /\ wsent' = [wsent EXCEPT ![w] = @ + 1]
        /\ wpc' = [wpc EXCEPT ![w] = "store"]
  /\ UNCHANGED <<hasChanged, wout, queueVars, now, apiKey, inactiveCount, wid, wprop, wfetch, isRunning,
                 emptyQueueCount, processedCount, failedCount, changedCount,
                 unchangedCount, wclosed, verifierVars, coordVars>>
  /\ UNCHANGED extraVars

\* Mutant of WorkerStore: changedCount is incremented but the snapshot is not written.
WorkerStoreSkipsSnapshot(w) ==
  /\ wpc[w] = "store"
  /\ \/ /\ QFails(w) /\ Fault(w)
        /\ wpc' = [wpc EXCEPT ![w] = "catch"]
        /\ UNCHANGED <<snapshot, lastSeen, changedCount>>
     \/ /\ QWorks(w) /\ UNCHANGED faults
        /\ snapshot' = snapshot
        /\ lastSeen' = [lastSeen EXCEPT ![wid[w]] = now]
        /\ changedCount' = [changedCount EXCEPT ![w] = @ + 1]
        /\ wpc' = [wpc EXCEPT ![w] = "mark"]
  /\ UNCHANGED <<hasChanged, wout, pending, discovered, processed, retryCount, failedIds, missing,
                 verifiedInactive, now, apiKey, sinkVars, wid, wprop, wfetch, wsent,
                 isRunning, emptyQueueCount, processedCount, failedCount,
                 unchangedCount, wclosed, verifierVars, coordVars>>
  /\ UNCHANGED extraVars

\* processListing: await this.queue.storePropertySnapshot(id, rawData); changedCount++
WorkerStore(w) ==
  /\ wpc[w] = "store"
  /\ \/ /\ QFails(w) /\ Fault(w)
        /\ wpc' = [wpc EXCEPT ![w] = "catch"]
        /\ UNCHANGED <<snapshot, lastSeen, changedCount>>
     \/ /\ QWorks(w) /\ UNCHANGED faults
        /\ snapshot' = [snapshot EXCEPT ![wid[w]] = wprop[w]]
        /\ lastSeen' = [lastSeen EXCEPT ![wid[w]] = now]
        /\ changedCount' = [changedCount EXCEPT ![w] = @ + 1]
        /\ wpc' = [wpc EXCEPT ![w] = "mark"]
  /\ UNCHANGED <<hasChanged, wout, pending, discovered, processed, retryCount, failedIds, missing,
                 verifiedInactive, now, apiKey, sinkVars, wid, wprop, wfetch, wsent,
                 isRunning, emptyQueueCount, processedCount, failedCount,
                 unchangedCount, wclosed, verifierVars, coordVars>>
  /\ UNCHANGED extraVars

\* Mutant of WorkerMarkProcessed: the id is counted but not added to the processed set.
WorkerMarkProcessedNotRecorded(w) ==
  /\ wpc[w] = "mark"
  /\ \/ /\ QFails(w) /\ Fault(w)
        /\ wpc' = [wpc EXCEPT ![w] = "catch"]
        /\ UNCHANGED <<processed, retryCount, processedCount, wout>>
     \/ /\ QWorks(w) /\ UNCHANGED faults
        /\ processed' = processed
        /\ retryCount' = [retryCount EXCEPT ![wid[w]] = 0]
        /\ processedCount' = [processedCount EXCEPT ![w] = @ + 1]
        /\ wout' = [wout EXCEPT ![w] = "processed"]
        /\ wpc' = [wpc EXCEPT ![w] = "delay"]
  /\ UNCHANGED <<hasChanged, pending, discovered, snapshot, lastSeen, failedIds, missing,
                 verifiedInactive, now, apiKey, sinkVars, wid, wprop, wfetch, wsent,
                 isRunning, emptyQueueCount, failedCount, changedCount,
                 unchangedCount, wclosed, verifierVars, coordVars>>
  /\ UNCHANGED extraVars

\* processListing: await this.queue.markProcessed(id); processedCount++; return true
WorkerMarkProcessed(w) ==
  /\ wpc[w] = "mark"
  /\ \/ /\ QFails(w) /\ Fault(w)
        /\ wpc' = [wpc EXCEPT ![w] = "catch"]
        /\ UNCHANGED <<processed, retryCount, processedCount, wout>>
     \/ /\ QWorks(w) /\ UNCHANGED faults
        /\ processed' = markProcessed(processed, wid[w])
        /\ retryCount' = [retryCount EXCEPT ![wid[w]] = 0]
        /\ processedCount' = [processedCount EXCEPT ![w] = @ + 1]
        /\ wout' = [wout EXCEPT ![w] = "processed"]
        /\ wpc' = [wpc EXCEPT ![w] = "delay"]
  /\ UNCHANGED <<hasChanged, pending, discovered, snapshot, lastSeen, failedIds, missing,
                 verifiedInactive, now, apiKey, sinkVars, wid, wprop, wfetch, wsent,
                 isRunning, emptyQueueCount, failedCount, changedCount,
                 unchangedCount, wclosed, verifierVars, coordVars>>
  /\ UNCHANGED extraVars

\* Mutant of WorkerCatch: failedCount is incremented on every failure, also when the id was re-queued.
WorkerCatchAlwaysCounts(w) ==
  /\ wpc[w] = "catch"
  /\ \/ /\ QFails(w) /\ Fault(w)
        /\ wpc' = [wpc EXCEPT ![w] = "backoff"]
        /\ UNCHANGED <<pending, retryCount, failedIds, failedCount, wout, waited>>
     \/ /\ QWorks(w) /\ UNCHANGED faults
        /\ LET r == requeueWithRetry(pending, retryCount, failedIds, wid[w], MaxRetries) IN
           /\ pending' = r.pending
           /\ retryCount' = r.retryCount
           /\ failedIds' = r.failedIds
           /\ waited' = IF ledger /\ r.requeued THEN [waited EXCEPT ![wid[w]] = 0] ELSE waited
           /\ failedCount' = [failedCount EXCEPT ![w] = @ + 1]
           /\ wout' = [wout EXCEPT ![w] = IF r.requeued THEN "requeued" ELSE "failed"]
        /\ wpc' = [wpc EXCEPT ![w] = "delay"]
  /\ UNCHANGED <<wfetch, hasChanged, discovered, processed, snapshot, lastSeen, missing, verifiedInactive,
                 now, apiKey, sinkVars, wid, wprop, wsent, isRunning,
                 emptyQueueCount, processedCount, changedCount, unchangedCount,
                 wclosed, verifierVars, coordVars>>
  /\ UNCHANGED <<ledger, obsVars, cmpVars, reqVars, histVars, planVars, apiVars, scraperVars,
                 cliVars>>

\* processListing, catch block: requeueWithRetry(id, 3); failedCount++ if it
\* reports false; return false.  A throw of requeueWithRetry leaves
\* processListing and is caught by the loop of start().
WorkerCatch(w) ==
  /\ wpc[w] = "catch"
  /\ \/ /\ QFails(w) /\ Fault(w)
        /\ wpc' = [wpc EXCEPT ![w] = "backoff"]
        /\ UNCHANGED <<pending, retryCount, failedIds, failedCount, wout, waited>>
     \/ /\ QWorks(w) /\ UNCHANGED faults
        /\ LET r == requeueWithRetry(pending, retryCount, failedIds, wid[w], MaxRetries) IN
           /\ pending' = r.pending
           /\ retryCount' = r.retryCount
           /\ failedIds' = r.failedIds
           /\ waited' = IF ledger /\ r.requeued THEN [waited EXCEPT ![wid[w]] = 0] ELSE waited
           /\ failedCount' = [failedCount EXCEPT ![w] = IF r.requeued THEN @ ELSE @ + 1]
           /\ wout' = [wout EXCEPT ![w] = IF r.requeued THEN "requeued" ELSE "failed"]
        /\ wpc' = [wpc EXCEPT ![w] = "delay"]
  /\ UNCHANGED <<wfetch, hasChanged, discovered, processed, snapshot, lastSeen, missing, verifiedInactive,
                 now, apiKey, sinkVars, wid, wprop, wsent, isRunning,
                 emptyQueueCount, processedCount, changedCount, unchangedCount,
                 wclosed, verifierVars, coordVars>>
  /\ UNCHANGED <<ledger, obsVars, cmpVars, reqVars, histVars, planVars, apiVars, scraperVars,
                 cliVars>>

\* start(): await randomDelay(requestDelayMs * 0.6, requestDelayMs * 1.6)
\* after processListing, then the loop test.
WorkerDelay(w) ==
  /\ wpc[w] = "delay"
  /\ wpc' = [wpc EXCEPT ![w] = LoopHead(w)]
  /\ wid' = [wid EXCEPT ![w] = NoId]
  /\ wprop' = [wprop EXCEPT ![w] = NoSnap]
  /\ wfetch' = [wfetch EXCEPT ![w] = "none"]
  /\ hasChanged' = [hasChanged EXCEPT ![w] = "unset"]
  /\ wsent' = [wsent EXCEPT ![w] = 0]
  /\ wout' = [wout EXCEPT ![w] = "none"]
  /\ UNCHANGED <<queueVars, envVars, sinkVars, isRunning, emptyQueueCount,
                 processedCount, failedCount, changedCount, unchangedCount,
                 wclosed, verifierVars, coordVars>>
  /\ \E d \in RateLimitDelays : waited' = waitedAfter(d)
  /\ UNCHANGED <<ledger, obsVars, cmpVars, reqVars, histVars, planVars, apiVars, scraperVars,
                 cliVars>>

\* Mutant of WorkerBackoff: the error caught by the loop of start() ends the loop.
WorkerBackoffEndsLoop(w) ==
  /\ wpc[w] = "backoff"
  /\ wpc' = [wpc EXCEPT ![w] = "stopped"]
  /\ wid' = [wid EXCEPT ![w] = NoId]
  /\ wprop' = [wprop EXCEPT ![w] = NoSnap]
  /\ wfetch' = [wfetch EXCEPT ![w] = "none"]
  /\ hasChanged' = [hasChanged EXCEPT ![w] = "unset"]
  /\ wsent' = [wsent EXCEPT ![w] = 0]
  /\ wout' = [wout EXCEPT ![w] = "none"]
  /\ UNCHANGED <<queueVars, envVars, sinkVars, isRunning, emptyQueueCount,
                 processedCount, failedCount, changedCount, unchangedCount,
                 wclosed, verifierVars, coordVars>>
  /\ \E d \in LoopBackoffDelays : waited' = waitedAfter(d)
  /\ UNCHANGED <<ledger, obsVars, cmpVars, reqVars, histVars, planVars, apiVars, scraperVars,
                 cliVars>>

\* start(), catch block: await randomDelay(5000, 10000), then the loop test.
WorkerBackoff(w) ==
  /\ wpc[w] = "backoff"
  /\ wpc' = [wpc EXCEPT ![w] = LoopHead(w)]
  /\ wid' = [wid EXCEPT ![w] = NoId]
  /\ wprop' = [wprop EXCEPT ![w] = NoSnap]
  /\ wfetch' = [wfetch EXCEPT ![w] = "none"]
  /\ hasChanged' = [hasChanged EXCEPT ![w] = "unset"]
  /\ wsent' = [wsent EXCEPT ![w] = 0]
  /\ wout' = [wout EXCEPT ![w] = "none"]
  /\ UNCHANGED <<queueVars, envVars, sinkVars, isRunning, emptyQueueCount,
                 processedCount, failedCount, changedCount, unchangedCount,
                 wclosed, verifierVars, coordVars>>
  /\ \E d \in LoopBackoffDelays : waited' = waitedAfter(d)
  /\ UNCHANGED <<ledger, obsVars, cmpVars, reqVars, histVars, planVars, apiVars, scraperVars,
                 cliVars>>

\* SIGINT / SIGTERM handler up to its first await: worker.stop() sets
\* isRunning = false and closes the queue connection.
WorkerSignal(w) ==
  /\ wpc[w] \notin {"stopped", "exited"}
  /\ ~wclosed[w]
  /\ isRunning' = [isRunning EXCEPT ![w] = FALSE]
  /\ wclosed' = [wclosed EXCEPT ![w] = TRUE]
  /\ UNCHANGED <<hasChanged, wout, queueVars, envVars, sinkVars, wpc, wid, wprop, wfetch, wsent,
                 emptyQueueCount, processedCount, failedCount, changedCount,
                 unchangedCount, verifierVars, coordVars>>
  /\ UNCHANGED extraVars

\* The rest of the signal handler: process.exit(0) once stop() has resolved.
WorkerExit(w) ==
  /\ wclosed[w]
  /\ wpc[w] # "exited"
  /\ wpc' = [wpc EXCEPT ![w] = "exited"]
  /\ UNCHANGED <<hasChanged, wout, queueVars, envVars, sinkVars, wid, wprop, wfetch, wsent, isRunning,
                 emptyQueueCount, processedCount, failedCount, changedCount,
                 unchangedCount, wclosed, verifierVars, coordVars>>
  /\ UNCHANGED extraVars

\* ------------------------------------------------------------ Verifier
VQWorks(v) == ~vclosed[v]
VQFails(v) == vclosed[v] \/ faults < MaxFaults
VFault(v) == faults' = IF vclosed[v] THEN faults ELSE faults + 1
VLoopHead(v) == IF vRunning[v] THEN "pop" ELSE "stopped"

\* verifyProperty over the answers of the two URL forms (validateStatus lets
\* 404 and 403 through as responses): 404 returns false, 403 and ad data
\* return true, a page without ad data and any error move on to the next
\* URL, and false is returned when both URLs are used up.
verifyProperty(r1, r2) ==
  IF r1 = "404" THEN FALSE
  ELSE IF r1 \in {"403", "ad"} THEN TRUE
  ELSE IF r2 = "404" THEN FALSE
  ELSE IF r2 \in {"403", "ad"} THEN TRUE
  ELSE FALSE

\* start(): await this.queue.popFromMissingQueue(5) and the branch on its result.
VerifierPop(v) ==
  /\ vpc[v] = "pop"
  /\ \/ /\ VQFails(v) /\ VFault(v)
        /\ vpc' = [vpc EXCEPT ![v] = "backoff"]
        /\ UNCHANGED <<missing, vid, vEmpty>>
     \/ /\ VQWorks(v) /\ missing = << >>
        /\ vEmpty' = [vEmpty EXCEPT ![v] = @ + 1]
        /\ IF vEmpty[v] + 1 >= MaxEmptyChecks
           THEN /\ vpc' = [vpc EXCEPT ![v] = "stopped"]
                /\ UNCHANGED faults
           ELSE \* getMissingQueueDepth() and getVerifiedInactiveCount() are awaited
                \/ /\ vpc' = [vpc EXCEPT ![v] = VLoopHead(v)]
                   /\ UNCHANGED faults
                \/ /\ faults < MaxFaults /\ faults' = faults + 1
                   /\ vpc' = [vpc EXCEPT ![v] = "backoff"]
        /\ UNCHANGED <<missing, vid>>
     \/ /\ VQWorks(v) /\ missing # << >>
        /\ missing' = Tail(missing)
        /\ vid' = [vid EXCEPT ![v] = Head(missing)]
        /\ vEmpty' = [vEmpty EXCEPT ![v] = 0]
        /\ vpc' = [vpc EXCEPT ![v] = "verify"]
        /\ UNCHANGED faults
  /\ UNCHANGED <<pending, discovered, processed, snapshot, lastSeen, retryCount,
                 failedIds, verifiedInactive, now, apiKey, sinkVars, workerVars,
                 vresp, vRunning, verifiedInactiveCount, foundActiveCount, vclosed,
                 coordVars>>
  /\ UNCHANGED extraVars

\* Mutant of VerifierVerify: markPropertyInactive is called whether or not an API key is configured.
VerifierVerifyIgnoresApiKey(v) ==
  /\ vpc[v] = "verify"
  /\ \E rs \in VerifyAnswers :
       /\ vresp' = [vresp EXCEPT ![v] = rs]
       /\ vpc' = [vpc EXCEPT ![v] =
                    IF verifyProperty(rs[1], rs[2]) THEN "updateLastSeen"
                    ELSE "markInactive"]
  /\ UNCHANGED <<queueVars, envVars, sinkVars, workerVars, vid, vRunning, vEmpty,
                 verifiedInactiveCount, foundActiveCount, vclosed, coordVars>>
  /\ UNCHANGED extraVars

\* processMissingProperty: await this.verifyProperty(id) and the branch on it
VerifierVerify(v) ==
  /\ vpc[v] = "verify"
  /\ \E rs \in VerifyAnswers :
       /\ vresp' = [vresp EXCEPT ![v] = rs]
       /\ vpc' = [vpc EXCEPT ![v] =
                    IF verifyProperty(rs[1], rs[2]) THEN "updateLastSeen"
                    ELSE IF apiKey THEN "markInactive" ELSE "markVerified"]
  /\ UNCHANGED <<queueVars, envVars, sinkVars, workerVars, vid, vRunning, vEmpty,
                 verifiedInactiveCount, foundActiveCount, vclosed, coordVars>>
  /\ UNCHANGED extraVars

\* Mutant of VerifierUpdateLastSeen: the restored-active counter is not incremented.
VerifierUpdateLastSeenNotCounted(v) ==
  /\ vpc[v] = "updateLastSeen"
  /\ \/ /\ VQFails(v) /\ VFault(v)
        /\ UNCHANGED <<lastSeen, foundActiveCount>>
     \/ /\ VQWorks(v) /\ UNCHANGED faults
        /\ lastSeen' = [lastSeen EXCEPT ![vid[v]] = now]
        /\ UNCHANGED foundActiveCount
  /\ vpc' = [vpc EXCEPT ![v] = "delay"]
  /\ UNCHANGED <<pending, discovered, processed, snapshot, retryCount, failedIds,
                 missing, verifiedInactive, now, apiKey, sinkVars, workerVars,
                 vid, vresp, vRunning, vEmpty, verifiedInactiveCount, vclosed, coordVars>>
  /\ UNCHANGED extraVars

\* processMissingProperty: await this.queue.updateLastSeen(id); foundActiveCount++
VerifierUpdateLastSeen(v) ==
  /\ vpc[v] = "updateLastSeen"
  /\ \/ /\ VQFails(v) /\ VFault(v)
        /\ UNCHANGED <<lastSeen, foundActiveCount>>
     \/ /\ VQWorks(v) /\ UNCHANGED faults
        /\ lastSeen' = [lastSeen EXCEPT ![vid[v]] = now]
        /\ foundActiveCount' = [foundActiveCount EXCEPT ![v] = @ + 1]
  /\ vpc' = [vpc EXCEPT ![v] = "delay"]
  /\ UNCHANGED <<pending, discovered, processed, snapshot, retryCount, failedIds,
                 missing, verifiedInactive, now, apiKey, sinkVars, workerVars,
                 vid, vresp, vRunning, vEmpty, verifiedInactiveCount, vclosed, coordVars>>
  /\ UNCHANGED extraVars

\* Mutant of VerifierMarkInactive: a failed markPropertyInactive is passed over and the id is recorded all the same.
VerifierMarkInactiveErrorIgnored(v) ==
  /\ vpc[v] = "markInactive"
  /\ \/ /\ SinkFails /\ faults' = faults + 1
        /\ vpc' = [vpc EXCEPT ![v] = "markVerified"]
        /\ UNCHANGED inactiveCount
     \/ /\ UNCHANGED faults
        /\ inactiveCount' = [inactiveCount EXCEPT ![vid[v]] = @ + 1]
        /\ vpc' = [vpc EXCEPT ![v] = "markVerified"]
  /\ UNCHANGED <<queueVars, now, apiKey, ingestCount, sinkPayload, workerVars,
                 vid, vresp, vRunning, vEmpty, verifiedInactiveCount,
                 foundActiveCount, vclosed, coordVars>>
  /\ UNCHANGED extraVars

\* processMissingProperty: await markPropertyInactive(portal, id, country, 'not_found')
VerifierMarkInactive(v) ==
  /\ vpc[v] = "markInactive"
  /\ \/ /\ SinkFails /\ faults' = faults + 1
        /\ vpc' = [vpc EXCEPT ![v] = "delay"]
        /\ UNCHANGED inactiveCount
     \/ /\ UNCHANGED faults
        /\ inactiveCount' = [inactiveCount EXCEPT ![vid[v]] = @ + 1]
        /\ vpc' = [vpc EXCEPT ![v] = "markVerified"]
  /\ UNCHANGED <<queueVars, now, apiKey, ingestCount, sinkPayload, workerVars,
                 vid, vresp, vRunning, vEmpty, verifiedInactiveCount,
                 foundActiveCount, vclosed, coordVars>>
  /\ UNCHANGED extraVars

\* Mutant of VerifierMarkVerified: marking an id inactive also deletes its snapshot.
VerifierMarkVerifiedDropsSnapshot(v) ==
  /\ vpc[v] = "markVerified"
  /\ \/ /\ VQFails(v) /\ VFault(v)
        /\ UNCHANGED <<verifiedInactive, verifiedInactiveCount, snapshot>>
     \/ /\ VQWorks(v) /\ UNCHANGED faults
        /\ verifiedInactive' = verifiedInactive \cup {vid[v]}
        /\ snapshot' = [snapshot EXCEPT ![vid[v]] = NoSnap]
        /\ verifiedInactiveCount' = [verifiedInactiveCount EXCEPT ![v] = @ + 1]
  /\ vpc' = [vpc EXCEPT ![v] = "delay"]
  /\ UNCHANGED <<pending, discovered, processed, lastSeen, retryCount,
                 failedIds, missing, now, apiKey, sinkVars, workerVars,
                 vid, vresp, vRunning, vEmpty, foundActiveCount, vclosed, coordVars>>
  /\ UNCHANGED extraVars

\* processMissingProperty: await this.queue.markVerifiedInactive(id); verifiedInactiveCount++
VerifierMarkVerified(v) ==
  /\ vpc[v] = "markVerified"
  /\ \/ /\ VQFails(v) /\ VFault(v)
        /\ UNCHANGED <<verifiedInactive, verifiedInactiveCount>>
     \/ /\ VQWorks(v) /\ UNCHANGED faults
        /\ verifiedInactive' = verifiedInactive \cup {vid[v]}
        /\ verifiedInactiveCount' = [verifiedInactiveCount EXCEPT ![v] = @ + 1]
  /\ vpc' = [vpc EXCEPT ![v] = "delay"]
  /\ UNCHANGED <<pending, discovered, processed, snapshot, lastSeen, retryCount,
                 failedIds, missing, now, apiKey, sinkVars, workerVars,
                 vid, vresp, vRunning, vEmpty, foundActiveCount, vclosed, coordVars>>
  /\ UNCHANGED extraVars

\* start(): await randomDelay(2000, 4000) after processMissingProperty, then the loop test.
VerifierDelay(v) ==
  /\ vpc[v] = "delay"
  /\ vpc' = [vpc EXCEPT ![v] = VLoopHead(v)]
  /\ vid' = [vid EXCEPT ![v] = NoId]
  /\ vresp' = [vresp EXCEPT ![v] = << >>]
  /\ UNCHANGED <<queueVars, envVars, sinkVars, workerVars, vRunning, vEmpty,
                 verifiedInactiveCount, foundActiveCount, vclosed, coordVars>>
  /\ UNCHANGED extraVars

\* start(), catch block: await randomDelay(5000, 10000), then the loop test.
VerifierBackoff(v) ==
  /\ vpc[v] = "backoff"
  /\ vpc' = [vpc EXCEPT ![v] = VLoopHead(v)]
  /\ UNCHANGED <<queueVars, envVars, sinkVars, workerVars, vid, vresp, vRunning, vEmpty,
                 verifiedInactiveCount, foundActiveCount, vclosed, coordVars>>
  /\ UNCHANGED extraVars

\* SIGINT / SIGTERM handler up to its first await: verifier.stop()
VerifierSignal(v) ==
  /\ vpc[v] \notin {"stopped", "exited"}
  /\ ~vclosed[v]
  /\ vRunning' = [vRunning EXCEPT ![v] = FALSE]
  /\ vclosed' = [vclosed EXCEPT ![v] = TRUE]
  /\ UNCHANGED <<queueVars, envVars, sinkVars, workerVars, vpc, vid, vresp, vEmpty,
                 verifiedInactiveCount, foundActiveCount, coordVars>>
  /\ UNCHANGED extraVars

\* The rest of the signal handler: process.exit(0) once stop() has resolved.
VerifierExit(v) ==
  /\ vclosed[v]
  /\ vpc[v] # "exited"
  /\ vpc' = [vpc EXCEPT ![v] = "exited"]
  /\ UNCHANGED <<queueVars, envVars, sinkVars, workerVars, vid, vresp, vRunning, vEmpty,
                 verifiedInactiveCount, foundActiveCount, vclosed, coordVars>>
  /\ UNCHANGED extraVars

\* ---------------------------------------------------------- Coordinator
\* A set of the ledger with the ids of a page added.
noted(S, ids) == IF ledger THEN S \cup SeqToSet(ids) ELSE S

\* The ids one search page can hold.
PageIds == {<< >>} \cup {<<i>> : i \in Ids}

\* discoverAllCities, once the progress report of a finished city is over:
\* the next partition, and after the last one the final getStats.
AfterCity ==
  IF cpart < NumPartitions
  THEN cpart' = cpart + 1 /\ cpc' = "first"
  ELSE cpart' = cpart /\ cpc' = "stats"

\* discoverCity ends (normally or through its catch): discoverAllCities goes
\* on with the rent partition of the city, or, the city being finished
\* (citiesProcessed++), with the progress report every StatsEvery cities.
NextPartition ==
  /\ coffset' = 0
  /\ ctotal' = 0
  /\ IF cpart % 2 = 0 /\ (cpart \div 2) % StatsEvery = 0
     THEN cpart' = cpart /\ cpc' = "progress"
     ELSE AfterCity

\* discoverCity: the first page (fetchListingIds at offset 0), the total === 0
\* return, pushListingIds(firstPage.ids), offset += limit and the loop test.
CoordFirstPage ==
  /\ cpc = "first"
  /\ \/ \* fetchListingIds throws: caught, return 0
        /\ NextPartition
        /\ UNCHANGED <<pending, discovered, faults, cids, cadded, obsVars>>
     \/ \* the search endpoint answers 401: fetchListingIds goes to its retry
        /\ cpc' = "first401"
        /\ UNCHANGED <<pending, discovered, faults, cids, cadded, cpart, coffset, ctotal,
                       obsVars>>
     \/ \E ids \in PageIds, total \in 0..MaxTotal :
          /\ observed' = noted(observed, ids)
          /\ IF total = 0
             THEN /\ NextPartition
                  /\ UNCHANGED <<pending, discovered, faults, cids, cadded, offered>>
             ELSE /\ offered' = noted(offered, ids)
                  /\ \/ \* pushListingIds throws: caught, return 0
                        /\ faults < MaxFaults /\ faults' = faults + 1
                        /\ NextPartition
                        /\ UNCHANGED <<pending, discovered, cids, cadded>>
                     \/ /\ LET r == pushListingIds(pending, discovered, ids) IN
                             /\ pending' = r.pending /\ discovered' = r.discovered
                             /\ cadded' = r.added
                        /\ cids' = ids
                        /\ UNCHANGED faults
                        /\ IF PageLimit < total
                           THEN /\ cpc' = "page" /\ coffset' = PageLimit
                                /\ ctotal' = total /\ cpart' = cpart
                           ELSE NextPartition
  /\ UNCHANGED <<processed, snapshot, lastSeen, retryCount, failedIds, missing,
                 verifiedInactive, now, apiKey, sinkVars, workerVars, verifierVars,
                 cmissing>>
  /\ UNCHANGED <<histVars, planVars, delayVars, cmpVars, reqVars, apiVars, scraperVars,
                 cliVars>>

\* Mutant of CoordNextPage: the ids of the page are kept back instead of being pushed.
CoordNextPageBuffered ==
  /\ cpc = "page"
  /\ \/ /\ NextPartition
        /\ UNCHANGED <<pending, discovered, faults, cids, cadded, obsVars>>
     \/ /\ cpc' = "page401"
        /\ UNCHANGED <<pending, discovered, faults, cids, cadded, cpart, coffset,
                       ctotal, obsVars>>
     \/ \E ids \in PageIds :
          /\ observed' = noted(observed, ids) /\ offered' = noted(offered, ids)
          /\ \/ /\ faults < MaxFaults /\ faults' = faults + 1
                /\ NextPartition
                /\ UNCHANGED <<pending, discovered, cids, cadded>>
             \/ /\ cids' = ids /\ cadded' = 0
                /\ UNCHANGED <<pending, discovered, faults>>
                /\ IF coffset + PageLimit < ctotal
                   THEN /\ coffset' = coffset + PageLimit
                        /\ UNCHANGED <<cpc, cpart, ctotal>>
                   ELSE NextPartition
  /\ UNCHANGED <<processed, snapshot, lastSeen, retryCount, failedIds, missing,
                 verifiedInactive, now, apiKey, sinkVars, workerVars, verifierVars,
                 cmissing>>
  /\ UNCHANGED <<histVars, planVars, delayVars, cmpVars, reqVars, apiVars, scraperVars,
                 cliVars>>

\* discoverCity: one iteration of while (offset < firstPage.total)
CoordNextPage ==
  /\ cpc = "page"
  /\ \/ \* fetchListingIds throws: caught, return 0
        /\ NextPartition
        /\ UNCHANGED <<pending, discovered, faults, cids, cadded, obsVars>>
     \/ \* the search endpoint answers 401: fetchListingIds goes to its retry
        /\ cpc' = "page401"
        /\ UNCHANGED <<pending, discovered, faults, cids, cadded, cpart, coffset,
                       ctotal, obsVars>>
     \/ \E ids \in PageIds :
          /\ observed' = noted(observed, ids) /\ offered' = noted(offered, ids)
          /\ \/ \* pushListingIds throws: caught, return 0
                /\ faults < MaxFaults /\ faults' = faults + 1
                /\ NextPartition
                /\ UNCHANGED <<pending, discovered, cids, cadded>>
             \/ /\ LET r == pushListingIds(pending, discovered, ids) IN
                     /\ pending' = r.pending /\ discovered' = r.discovered
                     /\ cadded' = r.added
                /\ cids' = ids
                /\ UNCHANGED faults
                /\ IF coffset + PageLimit < ctotal
                   THEN /\ coffset' = coffset + PageLimit
                        /\ UNCHANGED <<cpc, cpart, ctotal>>
                   ELSE NextPartition
  /\ UNCHANGED <<processed, snapshot, lastSeen, retryCount, failedIds, missing,
                 verifiedInactive, now, apiKey, sinkVars, workerVars, verifierVars,
                 cmissing>>
  /\ UNCHANGED <<histVars, planVars, delayVars, cmpVars, reqVars, apiVars, scraperVars,
                 cliVars>>

\* fetchListingIds, catch block on a 401: await this.refreshToken(), then
\* return this.fetchListingIds(city, listingType, offset, limit), the same
\* request again.  refreshToken returns at once without credentials or with a
\* token it holds for valid; its POST may fail, which discoverCity catches.
CoordRetryAfter401 ==
  /\ cpc \in {"first401", "page401"}
  /\ \/ /\ cpc' = (IF cpc = "first401" THEN "first" ELSE "page")
        /\ UNCHANGED <<cpart, coffset, ctotal>>
     \/ \* refreshToken throws: caught by discoverCity, return 0
        NextPartition
  /\ UNCHANGED <<queueVars, envVars, sinkVars, workerVars, verifierVars, cids, cadded,
                 cmissing>>
  /\ UNCHANGED extraVars

\* discoverAllCities: await this.queue.getStats() every StatsEvery cities.  Its
\* rejection is not caught before main, which logs it and calls process.exit(1).
CoordProgress ==
  /\ cpc = "progress"
  /\ \/ /\ faults < MaxFaults /\ faults' = faults + 1
        /\ cpc' = "aborted"
        /\ UNCHANGED cpart
     \/ /\ UNCHANGED faults
        /\ AfterCity
  /\ UNCHANGED <<queueVars, now, apiKey, sinkVars, workerVars, verifierVars,
                 coffset, ctotal, cids, cadded, cmissing>>
  /\ UNCHANGED extraVars

\* discoverAllCities: await this.queue.getStats() after the loop over the cities
CoordFinalStats ==
  /\ cpc = "stats"
  /\ \/ /\ faults < MaxFaults /\ faults' = faults + 1
        /\ cpc' = "aborted"
     \/ /\ UNCHANGED faults
        /\ cpc' = "missing"
  /\ UNCHANGED <<queueVars, now, apiKey, sinkVars, workerVars, verifierVars,
                 cpart, coffset, ctotal, cids, cadded, cmissing>>
  /\ UNCHANGED extraVars

\* identifyMissingProperties(12): await this.queue.findMissingProperties(...)
\* and the return when nothing is stale.  A rejection ends the pass in main's
\* catch block.
CoordIdentifyMissing ==
  /\ cpc = "missing"
  /\ cids' = << >> /\ cadded' = 0
  /\ \/ /\ faults < MaxFaults /\ faults' = faults + 1
        /\ cpc' = "aborted"
        /\ UNCHANGED cmissing
     \/ /\ UNCHANGED faults
        /\ LET missingIds == findMissingProperties(processed, lastSeen, verifiedInactive,
                                                   now, StaleAfter) IN
           IF missingIds = {}
           THEN cpc' = "done" /\ UNCHANGED cmissing
           ELSE cpc' = "pushMissing" /\ cmissing' = missingIds
  /\ UNCHANGED <<queueVars, now, apiKey, sinkVars, workerVars,
                 verifierVars, cpart, coffset, ctotal>>
  /\ UNCHANGED extraVars

\* identifyMissingProperties: await this.queue.pushToMissingQueue(missingIds);
\* the pass is over when it returns (main then reads the statistics and
\* closes the queue).
CoordPushMissing ==
  /\ cpc = "pushMissing"
  /\ cmissing' = {}
  /\ \/ /\ faults < MaxFaults /\ faults' = faults + 1
        /\ cpc' = "aborted"
        /\ UNCHANGED missing
     \/ /\ UNCHANGED faults
        /\ cpc' = "done"
        /\ missing' = pushToMissingQueue(missing, verifiedInactive, cmissing)
  /\ UNCHANGED <<pending, discovered, processed, snapshot, lastSeen, retryCount,
                 failedIds, verifiedInactive, now, apiKey, sinkVars, workerVars,
                 verifierVars, cpart, coffset, ctotal, cids, cadded>>
  /\ UNCHANGED extraVars

\* ------------------------------------------------------------ environment
Tick ==
  /\ now < MaxTime
  /\ now' = now + 1
  /\ UNCHANGED <<queueVars, faults, apiKey, sinkVars, workerVars, verifierVars, coordVars>>
  /\ UNCHANGED extraVars

\* --------------------------------------------- a client of MarkProcessed
MaxCalls == 2          \* MarkProcessed calls the client makes per id

\* Stats().processed: the size of the processed set.
statsProcessed(proc) == Cardinality(proc)

\* A client calls MarkProcessed(i): the id joins the processed set and its
\* retry counter is cleared.
ApiMarkProcessed(i) ==
  /\ markCalls[i] < MaxCalls
  /\ processed' = markProcessed(processed, i)
  /\ retryCount' = [retryCount EXCEPT ![i] = 0]
  /\ markCalls' = [markCalls EXCEPT ![i] = @ + 1]
  /\ UNCHANGED <<pending, discovered, snapshot, lastSeen, failedIds, missing,
                 verifiedInactive, envVars, sinkVars, workerVars, verifierVars,
                 coordVars, histVars, planVars, lateVars, scraperVars, cliVars>>

ApiIdle == markCalls = [i \in Ids |-> 0]

\* The history starts with what the queue records: the stored snapshot of an
\* id is the payload of its last successful fetch, made at its last_seen.
HistInit == lastFetched = snapshot /\ lastFetchedAt = lastSeen

\* One pair of answers for each outcome of the Detail Fetcher.
FixedAnswers ==
  {<<"ad", "unused">>, <<"404", "404">>, <<"403", "unused">>, <<"error", "error">>}

\* The answers and payload the source gives for each id, the same at every
\* fetch of the id.
FetchPlans ==
  [Ids -> {<<rs, p>> : rs \in FixedAnswers \ {<<"ad", "unused">>}, p \in {NoSnap}}
            \cup {<<rs, p>> : rs \in {<<"ad", "unused">>}, p \in Payloads}]

\* Where the source's answers are not held fixed the plan is not looked at.
PlanIdle == fetchPlan = [i \in Ids |-> <<<<"404", "404">>, NoSnap>>]

\* fetchPropertyDetail when the source answers as the plan says.
WorkerFetchFixed(w) ==
  /\ WorkerFetch(w)
  /\ LET rs == fetchPlan[wid[w]][1]
         res == fetchPropertyDetail(rs[1], rs[2]) IN
     /\ wfetch'[w] = FetchOutcome(rs)
     /\ wprop'[w] = (IF res = "found" THEN fetchPlan[wid[w]][2] ELSE NoSnap)
     /\ wpc'[w] = (CASE res = "found" -> "hasChanged"
                     [] res = "throw" -> "catch"
                     [] OTHER -> "markFailed")

\* ------------------------------------------------------ OtodomScraperV3
NumCities == 2         \* cities scrapeAllCities scrapes at once
MaxCityIds == 2        \* ids Phase 1 collects for one city
ScrapeMaxRetries == 3  \* const maxRetries = 3

Cities == 1..NumCities

\* What Phase 1 can collect for a city: any list of ids, repetitions included.
CityIdLists == UNION {[1..n -> Ids] : n \in 0..MaxCityIds}

\* scrapeCity, Phase 1: fetchListingIds page by page into allIds (a failed
\* page ends the collection with what has been pushed so far).
ScrapeCollectIds(c) ==
  /\ spc[c] = "phase1"
  /\ \E l \in CityIdLists : allIds' = [allIds EXCEPT ![c] = l]
  /\ sidx' = [sidx EXCEPT ![c] = 1]
  /\ spc' = [spc EXCEPT ![c] = "next"]
  /\ UNCHANGED <<retries, attempts, processedIds, resultScraped, resultFailed, fetches,
                 queueVars, envVars, sinkVars, workerVars, verifierVars, coordVars,
                 histVars, planVars, lateVars, apiVars, cliVars>>

\* scrapeCity, Phase 2, head of the for loop: an id in processedIds is skipped
\* (continue); otherwise retries = 0 and the first fetchPropertyDetail request
\* of the id is issued.  The end of the list ends scrapeCity.
ScrapeNextId(c) ==
  /\ spc[c] = "next"
  /\ IF sidx[c] > Len(allIds[c])
     THEN /\ spc' = [spc EXCEPT ![c] = "done"]
          /\ UNCHANGED <<sidx, retries, attempts, fetches>>
     ELSE IF allIds[c][sidx[c]] \in processedIds
     THEN /\ sidx' = [sidx EXCEPT ![c] = @ + 1]
          /\ UNCHANGED <<spc, retries, attempts, fetches>>
     ELSE /\ retries' = [retries EXCEPT ![c] = 0]
          /\ attempts' = [attempts EXCEPT ![c] = 1]
          /\ fetches' = [fetches EXCEPT ![allIds[c][sidx[c]]] = @ + 1]
          /\ spc' = [spc EXCEPT ![c] = "fetch"]
          /\ UNCHANGED sidx
  /\ UNCHANGED <<allIds, processedIds, resultScraped, resultFailed,
                 queueVars, envVars, sinkVars, workerVars, verifierVars, coordVars,
                 histVars, planVars, lateVars, apiVars, cliVars>>

\* Phase 2: const property = await this.fetchPropertyDetail(id).  The fetch
\* never throws: every error, 404 and page without ad data is null, and null
\* counts as success.  A property is added to processedIds, counted in
\* result.scraped and, with an API key, handed to sendToCoreService.
ScrapeFetched(c) ==
  /\ spc[c] = "fetch"
  /\ \/ /\ spc' = [spc EXCEPT ![c] = "delay"]
        /\ UNCHANGED <<processedIds, resultScraped>>
     \/ /\ processedIds' = processedIds \cup {allIds[c][sidx[c]]}
        /\ resultScraped' = [resultScraped EXCEPT ![c] = @ + 1]
        /\ spc' = [spc EXCEPT ![c] = IF apiKey THEN "send" ELSE "delay"]
  /\ UNCHANGED <<allIds, sidx, retries, attempts, resultFailed, fetches,
                 queueVars, envVars, sinkVars, workerVars, verifierVars, coordVars,
                 histVars, planVars, lateVars, apiVars, cliVars>>

\* Phase 2: await sendToCoreService(...) answers.  Its rejection is caught:
\* retries++, and either result.failed++ (retries > maxRetries, the while
\* loop ends and the for loop goes on) or the backoff delay starts.
ScrapeSent(c) ==
  /\ spc[c] = "send"
  /\ \/ /\ ingestCount' = [ingestCount EXCEPT ![allIds[c][sidx[c]]] = @ + 1]
        /\ spc' = [spc EXCEPT ![c] = "delay"]
        /\ UNCHANGED <<retries, resultFailed, sidx>>
     \/ /\ retries' = [retries EXCEPT ![c] = @ + 1]
        /\ IF retries[c] + 1 > ScrapeMaxRetries
           THEN /\ resultFailed' = [resultFailed EXCEPT ![c] = @ + 1]
                /\ sidx' = [sidx EXCEPT ![c] = @ + 1]
                /\ spc' = [spc EXCEPT ![c] = "next"]
           ELSE /\ spc' = [spc EXCEPT ![c] = "backoff"]
                /\ UNCHANGED <<resultFailed, sidx>>
        /\ UNCHANGED ingestCount
  /\ UNCHANGED <<allIds, attempts, processedIds, resultScraped, fetches,
                 queueVars, envVars, sinkPayload, inactiveCount, workerVars,
                 verifierVars, coordVars, histVars, planVars, lateVars, apiVars, cliVars>>

\* Phase 2: success = true; await randomDelay(...) is over, the while loop
\* ends and the for loop goes on with the next id.
ScrapeDelay(c) ==
  /\ spc[c] = "delay"
  /\ sidx' = [sidx EXCEPT ![c] = @ + 1]
  /\ spc' = [spc EXCEPT ![c] = "next"]
  /\ UNCHANGED <<allIds, retries, attempts, processedIds, resultScraped, resultFailed,
                 fetches, queueVars, envVars, sinkVars, workerVars, verifierVars,
                 coordVars, histVars, planVars, lateVars, apiVars, cliVars>>

\* Phase 2: the backoff delay of the catch block is over; retries <= maxRetries
\* and !success, so the try block runs again and fetchPropertyDetail is
\* requested once more (processedIds is not looked at again).
ScrapeBackoff(c) ==
  /\ spc[c] = "backoff"
  /\ attempts' = [attempts EXCEPT ![c] = @ + 1]
  /\ fetches' = [fetches EXCEPT ![allIds[c][sidx[c]]] = @ + 1]
  /\ spc' = [spc EXCEPT ![c] = "fetch"]
  /\ UNCHANGED <<allIds, sidx, retries, processedIds, resultScraped, resultFailed,
                 queueVars, envVars, sinkVars, workerVars, verifierVars, coordVars,
                 histVars, planVars, lateVars, apiVars, cliVars>>

ScrapeCity(c) ==
  \/ ScrapeCollectIds(c)
  \/ ScrapeNextId(c)
  \/ ScrapeFetched(c)
  \/ ScrapeSent(c)
  \/ ScrapeDelay(c)
  \/ ScrapeBackoff(c)

ScraperIdle ==
  /\ spc = [c \in Cities |-> "done"]
  /\ allIds = [c \in Cities |-> << >>]
  /\ sidx = [c \in Cities |-> 1]
  /\ retries = [c \in Cities |-> 0]
  /\ attempts = [c \in Cities |-> 0]
  /\ processedIds = {}
  /\ resultScraped = [c \in Cities |-> 0]
  /\ resultFailed = [c \in Cities |-> 0]
  /\ fetches = [i \in Ids |-> 0]

\* ------------------------------------- OtodomScraper.scrape() and the CLI
MaxLimit == 40         \* largest --limit value; 0 stands for no --limit
MaxPageSize == 2       \* listings one result page holds
MaxTotalPages == 3     \* largest pagination.totalPages a page reports
ListingsPerPage == 36  \* const listingsPerPage = 36

\* main: maxPages = args.limit ? Math.ceil(args.limit / listingsPerPage) : undefined
\* (0 stands for undefined; both are falsy in scrape()).
maxPages(lim) == IF lim = 0 THEN 0 ELSE (lim + ListingsPerPage - 1) \div ListingsPerPage

\* The condition under which the while loop of scrape() runs its body.
ScrapeLoopRuns ==
  /\ page <= totalPages
  /\ ~(maxPages(argsLimit) # 0 /\ page > maxPages(argsLimit))

\* scrape(): one iteration of the while loop.  fetchPage throws or the page
\* has no __NEXT_DATA__ (break); otherwise pagination, when present, sets
\* totalPages, an empty page breaks, and the listings of the page are all
\* pushed to allProperties before page++.
CliScrapePage ==
  /\ gpc = "scrape" /\ ScrapeLoopRuns
  /\ \/ /\ gpc' = "returned"
        /\ UNCHANGED <<page, totalPages, allProperties>>
     \/ \E n \in 0..MaxPageSize, tp \in 0..MaxTotalPages :
          /\ totalPages' = (IF tp = 0 THEN totalPages ELSE tp)
          /\ IF n = 0
             THEN /\ gpc' = "returned"
                  /\ UNCHANGED <<page, allProperties>>
             ELSE /\ allProperties' = allProperties + n
                  /\ page' = page + 1
                  /\ UNCHANGED gpc
  /\ UNCHANGED <<argsLimit, queueVars, envVars, sinkVars, workerVars, verifierVars,
                 coordVars, histVars, planVars, lateVars, apiVars, scraperVars>>

\* scrape(): the loop condition is false or the max pages limit is reached;
\* allProperties is returned.
CliScrapeReturn ==
  /\ gpc = "scrape" /\ ~ScrapeLoopRuns
  /\ gpc' = "returned"
  /\ UNCHANGED <<argsLimit, page, totalPages, allProperties, queueVars, envVars,
                 sinkVars, workerVars, verifierVars, coordVars, histVars, planVars, lateVars, apiVars, scraperVars>>

CliIdle ==
  /\ gpc = "returned" /\ argsLimit = 0 /\ page = 1 /\ totalPages = 1
  /\ allProperties = 0

\* The ledger is off and empty.
DelayIdle == ledger = FALSE /\ waited = [i \in Ids |-> 0]

ObsIdle == observed = {} /\ offered = {}

\* No comparison of the two detail readers is under way.
CmpIdle ==
  /\ cmpId = NoId /\ urlAnswers = <<"404", "404">>
  /\ fetched = "none" /\ verified = "none"

\* No BaseApiClient.request call is under way.
ReqIdle ==
  /\ rpc = "idle" /\ retryAttempts = 0 /\ attempt = 0 /\ requests = 0
  /\ lastResponse = "none"

\* The variables of the later claims at rest.
LateIdle == DelayIdle /\ ObsIdle /\ CmpIdle /\ ReqIdle

ExtraIdle == HistInit /\ PlanIdle /\ ApiIdle /\ ScraperIdle /\ CliIdle /\ LateIdle

\* ------------------------------------------------------------ specification
Init ==
  /\ pending = << >> /\ discovered = {} /\ processed = {}
  /\ snapshot = [i \in Ids |-> NoSnap]
  /\ lastSeen = [i \in Ids |-> 0]
  /\ retryCount = [i \in Ids |-> 0]
  /\ failedIds = {} /\ missing = << >> /\ verifiedInactive = {}
  /\ now = 0 /\ faults = 0 /\ apiKey \in BOOLEAN
  /\ ingestCount = [i \in Ids |-> 0]
  /\ sinkPayload = [i \in Ids |-> NoSnap]
  /\ inactiveCount = [i \in Ids |-> 0]
  /\ wpc = [w \in Workers |-> "pop"]
  /\ wid = [w \in Workers |-> NoId]
  /\ wprop = [w \in Workers |-> NoSnap]
  /\ wfetch = [w \in Workers |-> "none"]
  /\ hasChanged = [w \in Workers |-> "unset"]
  /\ wsent = [w \in Workers |-> 0]
  /\ wout = [w \in Workers |-> "none"]
  /\ isRunning = [w \in Workers |-> TRUE]
  /\ emptyQueueCount = [w \in Workers |-> 0]
  /\ processedCount = [w \in Workers |-> 0]
  /\ failedCount = [w \in Workers |-> 0]
  /\ changedCount = [w \in Workers |-> 0]
  /\ unchangedCount = [w \in Workers |-> 0]
  /\ wclosed = [w \in Workers |-> FALSE]
  /\ vpc = [v \in Verifiers |-> "pop"]
  /\ vid = [v \in Verifiers |-> NoId]
  /\ vresp = [v \in Verifiers |-> << >>]
  /\ vRunning = [v \in Verifiers |-> TRUE]
  /\ vEmpty = [v \in Verifiers |-> 0]
  /\ verifiedInactiveCount = [v \in Verifiers |-> 0]
  /\ foundActiveCount = [v \in Verifiers |-> 0]
  /\ vclosed = [v \in Verifiers |-> FALSE]
  /\ cpc = "first" /\ cpart = 1 /\ coffset = 0 /\ ctotal = 0
  /\ cids = << >> /\ cadded = 0 /\ cmissing = {}
  /\ ExtraIdle

WorkerStep(w) ==
  \/ WorkerPop(w) \/ WorkerIsProcessed(w) \/ WorkerFetch(w) \/ WorkerMarkFailed(w)
  \/ WorkerHasChanged(w) \/ WorkerSend(w) \/ WorkerStore(w) \/ WorkerMarkProcessed(w)
  \/ WorkerCatch(w) \/ WorkerDelay(w) \/ WorkerBackoff(w)

VerifierStep(v) ==
  \/ VerifierPop(v) \/ VerifierVerify(v) \/ VerifierUpdateLastSeen(v)
  \/ VerifierMarkInactive(v) \/ VerifierMarkVerified(v) \/ VerifierDelay(v)
  \/ VerifierBackoff(v)

\* discoverAllCities up to identifyMissingProperties
CoordDiscover ==
  \/ CoordFirstPage
  \/ CoordNextPage
  \/ CoordRetryAfter401
  \/ CoordProgress
  \/ CoordFinalStats

CoordStep == CoordDiscover \/ CoordIdentifyMissing \/ CoordPushMissing

\* A discovery pass from construction, with Workers consuming what it enqueues.
\* The pass is short against the staleness threshold: the clock does not
\* move, and identifyMissingProperties finds nothing stale.
Next ==
  \/ CoordDiscover
  \/ CoordIdentifyMissing
  \/ \E w \in 1..NumPassWorkers : WorkerStep(w)

Spec == Init /\ [][Next]_vars

\* Where a discovery pass leaves the queue: every id discovered and pending.
AllIds[n \in 0..NumIds] == IF n = 0 THEN << >> ELSE Append(AllIds[n - 1], n)

\* The Worker pool consuming the queue a discovery pass has filled.
InitWorkers ==
  /\ pending = AllIds[NumIds] /\ discovered = Ids /\ processed = {}
  /\ snapshot = [i \in Ids |-> NoSnap]
  /\ lastSeen = [i \in Ids |-> 0]
  /\ retryCount = [i \in Ids |-> 0]
  /\ failedIds = {} /\ missing = << >> /\ verifiedInactive = {}
  /\ now = 0 /\ faults = 0 /\ apiKey \in BOOLEAN
  /\ ingestCount = [i \in Ids |-> 0]
  /\ sinkPayload = [i \in Ids |-> NoSnap]
  /\ inactiveCount = [i \in Ids |-> 0]
  /\ wpc = [w \in Workers |-> "pop"]
  /\ wid = [w \in Workers |-> NoId]
  /\ wprop = [w \in Workers |-> NoSnap]
  /\ wfetch = [w \in Workers |-> "none"]
  /\ hasChanged = [w \in Workers |-> "unset"]
  /\ wsent = [w \in Workers |-> 0]
  /\ wout = [w \in Workers |-> "none"]
  /\ isRunning = [w \in Workers |-> TRUE]
  /\ emptyQueueCount = [w \in Workers |-> 0]
  /\ processedCount = [w \in Workers |-> 0]
  /\ failedCount = [w \in Workers |-> 0]
  /\ changedCount = [w \in Workers |-> 0]
  /\ unchangedCount = [w \in Workers |-> 0]
  /\ wclosed = [w \in Workers |-> FALSE]
  /\ vpc = [v \in Verifiers |-> "stopped"]
  /\ vid = [v \in Verifiers |-> NoId]
  /\ vresp = [v \in Verifiers |-> << >>]
  /\ vRunning = [v \in Verifiers |-> TRUE]
  /\ vEmpty = [v \in Verifiers |-> MaxEmptyChecks]
  /\ verifiedInactiveCount = [v \in Verifiers |-> 0]
  /\ foundActiveCount = [v \in Verifiers |-> 0]
  /\ vclosed = [v \in Verifiers |-> FALSE]
  /\ cpc = "done" /\ cpart = NumPartitions /\ coffset = 0 /\ ctotal = 0
  /\ cids = << >> /\ cadded = 0 /\ cmissing = {}
  /\ ExtraIdle

NextWorkers == \E w \in Workers : WorkerStep(w)

SpecWorkers == InitWorkers /\ [][NextWorkers]_vars

\* The Workers' run with interrupt / terminate signals, from the same filled
\* queue.  No transport error is injected here (the budget is used up): the
\* only queue errors are those of a connection that stop() has closed.
InitShutdown ==
  /\ pending = AllIds[NumIds] /\ discovered = Ids /\ processed = {}
  /\ snapshot = [i \in Ids |-> NoSnap]
  /\ lastSeen = [i \in Ids |-> 0]
  /\ retryCount = [i \in Ids |-> 0]
  /\ failedIds = {} /\ missing = << >> /\ verifiedInactive = {}
  /\ now = 0 /\ faults = MaxFaults /\ apiKey \in BOOLEAN
  /\ ingestCount = [i \in Ids |-> 0]
  /\ sinkPayload = [i \in Ids |-> NoSnap]
  /\ inactiveCount = [i \in Ids |-> 0]
  /\ wpc = [w \in Workers |-> "pop"]
  /\ wid = [w \in Workers |-> NoId]
  /\ wprop = [w \in Workers |-> NoSnap]
  /\ wfetch = [w \in Workers |-> "none"]
  /\ hasChanged = [w \in Workers |-> "unset"]
  /\ wsent = [w \in Workers |-> 0]
  /\ wout = [w \in Workers |-> "none"]
  /\ isRunning = [w \in Workers |-> TRUE]
  /\ emptyQueueCount = [w \in Workers |-> 0]
  /\ processedCount = [w \in Workers |-> 0]
  /\ failedCount = [w \in Workers |-> 0]
  /\ changedCount = [w \in Workers |-> 0]
  /\ unchangedCount = [w \in Workers |-> 0]
  /\ wclosed = [w \in Workers |-> FALSE]
  /\ vpc = [v \in Verifiers |-> "stopped"]
  /\ vid = [v \in Verifiers |-> NoId]
  /\ vresp = [v \in Verifiers |-> << >>]
  /\ vRunning = [v \in Verifiers |-> TRUE]
  /\ vEmpty = [v \in Verifiers |-> MaxEmptyChecks]
  /\ verifiedInactiveCount = [v \in Verifiers |-> 0]
  /\ foundActiveCount = [v \in Verifiers |-> 0]
  /\ vclosed = [v \in Verifiers |-> FALSE]
  /\ cpc = "done" /\ cpart = NumPartitions /\ coffset = 0 /\ ctotal = 0
  /\ cids = << >> /\ cadded = 0 /\ cmissing = {}
  /\ ExtraIdle

NextShutdown ==
  \/ \E w \in Workers : WorkerStep(w)
  \/ \E w \in Workers : WorkerSignal(w)
  \/ \E w \in Workers : WorkerExit(w)

SpecShutdown == InitShutdown /\ [][NextShutdown]_vars

\* The Verifier's run.  It starts where a discovery pass leaves the queue once
\* the Workers have processed the discovered ids and stopped idle, and the
\* clock has passed the staleness threshold: identifyMissingProperties has
\* pushed the stale processed ids to the missing channel.
InitVerifier ==
  /\ pending = << >>
  /\ \E S \in SUBSET Ids : discovered = S /\ processed = S
  /\ snapshot \in [Ids -> Payloads \cup {NoSnap}]
  /\ \A i \in Ids : (snapshot[i] # NoSnap) = (i \in processed)
  /\ lastSeen = [i \in Ids |-> 0]
  /\ retryCount = [i \in Ids |-> 0]
  /\ failedIds = {} /\ verifiedInactive = {}
  /\ now = StaleAfter /\ faults = 0 /\ apiKey \in BOOLEAN
  /\ missing = pushToMissingQueue(<< >>, verifiedInactive,
                 findMissingProperties(processed, lastSeen, verifiedInactive, now, StaleAfter))
  /\ ingestCount = [i \in Ids |-> IF apiKey /\ i \in processed THEN 1 ELSE 0]
  /\ sinkPayload = [i \in Ids |-> IF apiKey THEN snapshot[i] ELSE NoSnap]
  /\ inactiveCount = [i \in Ids |-> 0]
  /\ wpc = [w \in Workers |-> "stopped"]
  /\ wid = [w \in Workers |-> NoId]
  /\ wprop = [w \in Workers |-> NoSnap]
  /\ wfetch = [w \in Workers |-> "none"]
  /\ hasChanged = [w \in Workers |-> "unset"]
  /\ wsent = [w \in Workers |-> 0]
  /\ wout = [w \in Workers |-> "none"]
  /\ isRunning = [w \in Workers |-> TRUE]
  /\ emptyQueueCount = [w \in Workers |-> MaxEmptyChecks]
  /\ processedCount = [w \in Workers |-> 0]
  /\ failedCount = [w \in Workers |-> 0]
  /\ changedCount = [w \in Workers |-> 0]
  /\ unchangedCount = [w \in Workers |-> 0]
  /\ wclosed = [w \in Workers |-> FALSE]
  /\ vpc = [v \in Verifiers |-> "pop"]
  /\ vid = [v \in Verifiers |-> NoId]
  /\ vresp = [v \in Verifiers |-> << >>]
  /\ vRunning = [v \in Verifiers |-> TRUE]
  /\ vEmpty = [v \in Verifiers |-> 0]
  /\ verifiedInactiveCount = [v \in Verifiers |-> 0]
  /\ foundActiveCount = [v \in Verifiers |-> 0]
  /\ vclosed = [v \in Verifiers |-> FALSE]
  /\ cpc = "done" /\ cpart = NumPartitions /\ coffset = 0 /\ ctotal = 0
  /\ cids = << >> /\ cadded = 0 /\ cmissing = {}
  /\ ExtraIdle

NextVerifier ==
  \/ \E v \in Verifiers : VerifierStep(v)
  \/ \E v \in Verifiers : VerifierSignal(v)
  \/ \E v \in Verifiers : VerifierExit(v)
  \/ Tick

SpecVerifier == InitVerifier /\ [][NextVerifier]_vars

\* A Worker and a Verifier run side by side as batch jobs, with signals.  The
\* run starts after a discovery pass that found id 1 new and flagged the ids
\* processed earlier as stale: id 1 is pending, the others are in the missing
\* channel; both loops had polled their empty channels MaxEmptyChecks - 1
\* times before the pass filled them.  Each started loop keeps being
\* scheduled (the event loop resumes every await that has settled); signals
\* may or may not arrive.
InitLoops ==
  /\ pending = <<1>> /\ discovered = Ids /\ processed = Ids \ {1}
  /\ snapshot \in [Ids -> Payloads \cup {NoSnap}]
  /\ \A i \in Ids : snapshot[i] = (IF i \in processed THEN 1 ELSE NoSnap)
  /\ lastSeen = [i \in Ids |-> 0]
  /\ retryCount = [i \in Ids |-> 0]
  /\ failedIds = {} /\ verifiedInactive = {}
  /\ now = StaleAfter /\ faults = 0 /\ apiKey \in BOOLEAN
  /\ missing = pushToMissingQueue(<< >>, verifiedInactive,
                 findMissingProperties(processed, lastSeen, verifiedInactive, now, StaleAfter))
  /\ ingestCount = [i \in Ids |-> IF apiKey /\ i \in processed THEN 1 ELSE 0]
  /\ sinkPayload = [i \in Ids |-> IF apiKey THEN snapshot[i] ELSE NoSnap]
  /\ inactiveCount = [i \in Ids |-> 0]
  /\ wpc = [w \in Workers |-> IF w <= NumPassWorkers THEN "pop" ELSE "stopped"]
  /\ wid = [w \in Workers |-> NoId]
  /\ wprop = [w \in Workers |-> NoSnap]
  /\ wfetch = [w \in Workers |-> "none"]
  /\ hasChanged = [w \in Workers |-> "unset"]
  /\ wsent = [w \in Workers |-> 0]
  /\ wout = [w \in Workers |-> "none"]
  /\ isRunning = [w \in Workers |-> TRUE]
  /\ emptyQueueCount = [w \in Workers |-> IF w <= NumPassWorkers THEN MaxEmptyChecks - 1 ELSE MaxEmptyChecks]
  /\ processedCount = [w \in Workers |-> 0]
  /\ failedCount = [w \in Workers |-> 0]
  /\ changedCount = [w \in Workers |-> 0]
  /\ unchangedCount = [w \in Workers |-> 0]
  /\ wclosed = [w \in Workers |-> FALSE]
  /\ vpc = [v \in Verifiers |-> "pop"]
  /\ vid = [v \in Verifiers |-> NoId]
  /\ vresp = [v \in Verifiers |-> << >>]
  /\ vRunning = [v \in Verifiers |-> TRUE]
  /\ vEmpty = [v \in Verifiers |-> MaxEmptyChecks - 1]
  /\ verifiedInactiveCount = [v \in Verifiers |-> 0]
  /\ foundActiveCount = [v \in Verifiers |-> 0]
  /\ vclosed = [v \in Verifiers |-> FALSE]
  /\ cpc = "done" /\ cpart = NumPartitions /\ coffset = 0 /\ ctotal = 0
  /\ cids = << >> /\ cadded = 0 /\ cmissing = {}
  /\ ExtraIdle

NextLoops ==
  \/ \E w \in Workers : WorkerStep(w)
  \/ \E w \in Workers : WorkerSignal(w)
  \/ \E w \in Workers : WorkerExit(w)
  \/ \E v \in Verifiers : VerifierStep(v)
  \/ \E v \in Verifiers : VerifierSignal(v)
  \/ \E v \in Verifiers : VerifierExit(v)

SpecLoops ==
  /\ InitLoops /\ [][NextLoops]_vars
  /\ \A w \in Workers : WF_vars(WorkerStep(w))
  /\ \A v \in Verifiers : WF_vars(VerifierStep(v))

\* The end of a discovery pass, with a Worker and the Verifier at work.  The
\* pass found id 1 new (it is pending); the ids processed earlier have a
\* last_seen past the staleness threshold, and an earlier pass may or may not
\* have pushed them to the missing channel already.  The Coordinator has
\* left its loop over the partitions; the Worker and the Verifier are polling;
\* the clock moves.
InitPass ==
  /\ pending = <<1>> /\ discovered = Ids /\ processed = Ids \ {1}
  /\ snapshot \in [Ids -> Payloads \cup {NoSnap}]
  /\ \A i \in Ids : snapshot[i] = (IF i \in processed THEN 1 ELSE NoSnap)
  /\ lastSeen = [i \in Ids |-> 0]
  /\ retryCount = [i \in Ids |-> 0]
  /\ failedIds = {} /\ verifiedInactive = {}
  /\ now = StaleAfter /\ faults = 0 /\ apiKey \in BOOLEAN
  /\ \/ missing = << >>
     \/ missing = pushToMissingQueue(<< >>, verifiedInactive,
                    findMissingProperties(processed, lastSeen, verifiedInactive, now, StaleAfter))
  /\ ingestCount = [i \in Ids |-> IF apiKey /\ i \in processed THEN 1 ELSE 0]
  /\ sinkPayload = [i \in Ids |-> IF apiKey THEN snapshot[i] ELSE NoSnap]
  /\ inactiveCount = [i \in Ids |-> 0]
  /\ wpc = [w \in Workers |-> IF w <= NumPassWorkers THEN "pop" ELSE "stopped"]
  /\ wid = [w \in Workers |-> NoId]
  /\ wprop = [w \in Workers |-> NoSnap]
  /\ wfetch = [w \in Workers |-> "none"]
  /\ hasChanged = [w \in Workers |-> "unset"]
  /\ wsent = [w \in Workers |-> 0]
  /\ wout = [w \in Workers |-> "none"]
  /\ isRunning = [w \in Workers |-> TRUE]
  /\ emptyQueueCount = [w \in Workers |-> IF w <= NumPassWorkers THEN 0 ELSE MaxEmptyChecks]
  /\ processedCount = [w \in Workers |-> 0]
  /\ failedCount = [w \in Workers |-> 0]
  /\ changedCount = [w \in Workers |-> 0]
  /\ unchangedCount = [w \in Workers |-> 0]
  /\ wclosed = [w \in Workers |-> FALSE]
  /\ vpc = [v \in Verifiers |-> "pop"]
  /\ vid = [v \in Verifiers |-> NoId]
  /\ vresp = [v \in Verifiers |-> << >>]
  /\ vRunning = [v \in Verifiers |-> TRUE]
  /\ vEmpty = [v \in Verifiers |-> 0]
  /\ verifiedInactiveCount = [v \in Verifiers |-> 0]
  /\ foundActiveCount = [v \in Verifiers |-> 0]
  /\ vclosed = [v \in Verifiers |-> FALSE]
  /\ cpc = "stats" /\ cpart = NumPartitions /\ coffset = 0 /\ ctotal = 0
  /\ cids = << >> /\ cadded = 0 /\ cmissing = {}
  /\ ExtraIdle

NextPass ==
  \/ CoordFinalStats
  \/ CoordIdentifyMissing
  \/ CoordPushMissing
  \/ \E w \in Workers : WorkerStep(w)
  \/ \E v \in Verifiers : VerifierStep(v)
  \/ Tick

SpecPass == InitPass /\ [][NextPass]_vars

\* A discovery pass on its own, over a queue that earlier passes and the
\* Workers left with some ids processed.  The Coordinator is the only process
\* of its program: every await that settles is resumed.
InitDiscovery ==
  /\ pending = << >>
  /\ \E S \in SUBSET Ids : discovered = S /\ processed = S
  /\ snapshot \in [Ids -> Payloads \cup {NoSnap}]
  /\ \A i \in Ids : snapshot[i] = (IF i \in processed THEN 1 ELSE NoSnap)
  /\ lastSeen = [i \in Ids |-> 0]
  /\ retryCount = [i \in Ids |-> 0]
  /\ failedIds = {} /\ missing = << >> /\ verifiedInactive = {}
  /\ now = 0 /\ faults = 0 /\ apiKey \in BOOLEAN
  /\ ingestCount = [i \in Ids |-> IF apiKey /\ i \in processed THEN 1 ELSE 0]
  /\ sinkPayload = [i \in Ids |-> IF apiKey THEN snapshot[i] ELSE NoSnap]
  /\ inactiveCount = [i \in Ids |-> 0]
  /\ wpc = [w \in Workers |-> "stopped"]
  /\ wid = [w \in Workers |-> NoId]
  /\ wprop = [w \in Workers |-> NoSnap]
  /\ wfetch = [w \in Workers |-> "none"]
  /\ hasChanged = [w \in Workers |-> "unset"]
  /\ wsent = [w \in Workers |-> 0]
  /\ wout = [w \in Workers |-> "none"]
  /\ isRunning = [w \in Workers |-> TRUE]
  /\ emptyQueueCount = [w \in Workers |-> MaxEmptyChecks]
  /\ processedCount = [w \in Workers |-> 0]
  /\ failedCount = [w \in Workers |-> 0]
  /\ changedCount = [w \in Workers |-> 0]
  /\ unchangedCount = [w \in Workers |-> 0]
  /\ wclosed = [w \in Workers |-> FALSE]
  /\ vpc = [v \in Verifiers |-> "stopped"]
  /\ vid = [v \in Verifiers |-> NoId]
  /\ vresp = [v \in Verifiers |-> << >>]
  /\ vRunning = [v \in Verifiers |-> TRUE]
  /\ vEmpty = [v \in Verifiers |-> MaxEmptyChecks]
  /\ verifiedInactiveCount = [v \in Verifiers |-> 0]
  /\ foundActiveCount = [v \in Verifiers |-> 0]
  /\ vclosed = [v \in Verifiers |-> FALSE]
  /\ cpc = "first" /\ cpart = 1 /\ coffset = 0 /\ ctotal = 0
  /\ cids = << >> /\ cadded = 0 /\ cmissing = {}
  /\ ExtraIdle

NextDiscovery ==
  \/ CoordStep
  \/ Tick

SpecDiscovery == InitDiscovery /\ [][NextDiscovery]_vars /\ WF_vars(CoordStep)

\* The queue, the Sink and the pipeline processes at rest: nothing queued,
\* no process running.
PipelineIdle ==
  /\ pending = << >> /\ discovered = {} /\ processed = {}
  /\ snapshot = [i \in Ids |-> NoSnap]
  /\ lastSeen = [i \in Ids |-> 0]
  /\ retryCount = [i \in Ids |-> 0]
  /\ failedIds = {} /\ missing = << >> /\ verifiedInactive = {}
  /\ now = 0 /\ faults = 0
  /\ ingestCount = [i \in Ids |-> 0]
  /\ sinkPayload = [i \in Ids |-> NoSnap]
  /\ inactiveCount = [i \in Ids |-> 0]
  /\ wpc = [w \in Workers |-> "stopped"]
  /\ wid = [w \in Workers |-> NoId]
  /\ wprop = [w \in Workers |-> NoSnap]
  /\ wfetch = [w \in Workers |-> "none"]
  /\ hasChanged = [w \in Workers |-> "unset"]
  /\ wsent = [w \in Workers |-> 0]
  /\ wout = [w \in Workers |-> "none"]
  /\ isRunning = [w \in Workers |-> TRUE]
  /\ emptyQueueCount = [w \in Workers |-> MaxEmptyChecks]
  /\ processedCount = [w \in Workers |-> 0]
  /\ failedCount = [w \in Workers |-> 0]
  /\ changedCount = [w \in Workers |-> 0]
  /\ unchangedCount = [w \in Workers |-> 0]
  /\ wclosed = [w \in Workers |-> FALSE]
  /\ vpc = [v \in Verifiers |-> "stopped"]
  /\ vid = [v \in Verifiers |-> NoId]
  /\ vresp = [v \in Verifiers |-> << >>]
  /\ vRunning = [v \in Verifiers |-> TRUE]
  /\ vEmpty = [v \in Verifiers |-> MaxEmptyChecks]
  /\ verifiedInactiveCount = [v \in Verifiers |-> 0]
  /\ foundActiveCount = [v \in Verifiers |-> 0]
  /\ vclosed = [v \in Verifiers |-> FALSE]
  /\ cpc = "done" /\ cpart = NumPartitions /\ coffset = 0 /\ ctotal = 0
  /\ cids = << >> /\ cadded = 0 /\ cmissing = {}

\* The Worker pool on a queue in which ids that are already processed are
\* pending again: the reply of an earlier markProcessed was lost after Redis
\* had executed it (the connection dropped), the call rejected and
\* requeueWithRetry put the id back (retry counter 1).
InitRedelivered ==
  /\ pending = AllIds[NumIds] /\ discovered = Ids
  /\ processed \in SUBSET Ids
  /\ snapshot = [i \in Ids |-> IF i \in processed THEN 1 ELSE NoSnap]
  /\ lastSeen = [i \in Ids |-> 0]
  /\ retryCount = [i \in Ids |-> IF i \in processed THEN 1 ELSE 0]
  /\ failedIds = {} /\ missing = << >> /\ verifiedInactive = {}
  /\ now = 0 /\ faults = 0 /\ apiKey \in BOOLEAN
  /\ ingestCount = [i \in Ids |-> IF apiKey /\ i \in processed THEN 1 ELSE 0]
  /\ sinkPayload = [i \in Ids |-> IF apiKey THEN snapshot[i] ELSE NoSnap]
  /\ inactiveCount = [i \in Ids |-> 0]
  /\ wpc = [w \in Workers |-> "pop"]
  /\ wid = [w \in Workers |-> NoId]
  /\ wprop = [w \in Workers |-> NoSnap]
  /\ wfetch = [w \in Workers |-> "none"]
  /\ hasChanged = [w \in Workers |-> "unset"]
  /\ wsent = [w \in Workers |-> 0]
  /\ wout = [w \in Workers |-> "none"]
  /\ isRunning = [w \in Workers |-> TRUE]
  /\ emptyQueueCount = [w \in Workers |-> 0]
  /\ processedCount = [w \in Workers |-> 0]
  /\ failedCount = [w \in Workers |-> 0]
  /\ changedCount = [w \in Workers |-> 0]
  /\ unchangedCount = [w \in Workers |-> 0]
  /\ wclosed = [w \in Workers |-> FALSE]
  /\ vpc = [v \in Verifiers |-> "stopped"]
  /\ vid = [v \in Verifiers |-> NoId]
  /\ vresp = [v \in Verifiers |-> << >>]
  /\ vRunning = [v \in Verifiers |-> TRUE]
  /\ vEmpty = [v \in Verifiers |-> MaxEmptyChecks]
  /\ verifiedInactiveCount = [v \in Verifiers |-> 0]
  /\ foundActiveCount = [v \in Verifiers |-> 0]
  /\ vclosed = [v \in Verifiers |-> FALSE]
  /\ cpc = "done" /\ cpart = NumPartitions /\ coffset = 0 /\ ctotal = 0
  /\ cids = << >> /\ cadded = 0 /\ cmissing = {}
  /\ ExtraIdle

NextRedelivered == \E w \in Workers : WorkerStep(w)

SpecRedelivered == InitRedelivered /\ [][NextRedelivered]_vars

\* The Worker pool on a queue whose pending ids are given in any order, with
\* the source's answer for each id held fixed and no queue or Sink error.
InitFixed ==
  /\ pending \in {s \in [1..NumIds -> Ids] : SeqToSet(s) = Ids}
  /\ discovered = Ids /\ processed = {}
  /\ snapshot = [i \in Ids |-> NoSnap]
  /\ lastSeen = [i \in Ids |-> 0]
  /\ retryCount = [i \in Ids |-> 0]
  /\ failedIds = {} /\ missing = << >> /\ verifiedInactive = {}
  /\ now = 0 /\ faults = MaxFaults /\ apiKey \in BOOLEAN
  /\ ingestCount = [i \in Ids |-> 0]
  /\ sinkPayload = [i \in Ids |-> NoSnap]
  /\ inactiveCount = [i \in Ids |-> 0]
  /\ wpc = [w \in Workers |-> "pop"]
  /\ wid = [w \in Workers |-> NoId]
  /\ wprop = [w \in Workers |-> NoSnap]
  /\ wfetch = [w \in Workers |-> "none"]
  /\ hasChanged = [w \in Workers |-> "unset"]
  /\ wsent = [w \in Workers |-> 0]
  /\ wout = [w \in Workers |-> "none"]
  /\ isRunning = [w \in Workers |-> TRUE]
  /\ emptyQueueCount = [w \in Workers |-> 0]
  /\ processedCount = [w \in Workers |-> 0]
  /\ failedCount = [w \in Workers |-> 0]
  /\ changedCount = [w \in Workers |-> 0]
  /\ unchangedCount = [w \in Workers |-> 0]
  /\ wclosed = [w \in Workers |-> FALSE]
  /\ vpc = [v \in Verifiers |-> "stopped"]
  /\ vid = [v \in Verifiers |-> NoId]
  /\ vresp = [v \in Verifiers |-> << >>]
  /\ vRunning = [v \in Verifiers |-> TRUE]
  /\ vEmpty = [v \in Verifiers |-> MaxEmptyChecks]
  /\ verifiedInactiveCount = [v \in Verifiers |-> 0]
  /\ foundActiveCount = [v \in Verifiers |-> 0]
  /\ vclosed = [v \in Verifiers |-> FALSE]
  /\ cpc = "done" /\ cpart = NumPartitions /\ coffset = 0 /\ ctotal = 0
  /\ cids = << >> /\ cadded = 0 /\ cmissing = {}
  /\ HistInit /\ LateIdle /\ ApiIdle /\ ScraperIdle /\ CliIdle
  /\ fetchPlan \in FetchPlans

NextFixed ==
  \E w \in Workers :
    \/ WorkerPop(w) \/ WorkerIsProcessed(w) \/ WorkerFetchFixed(w) \/ WorkerMarkFailed(w)
    \/ WorkerHasChanged(w) \/ WorkerSend(w) \/ WorkerStore(w) \/ WorkerMarkProcessed(w)
    \/ WorkerCatch(w) \/ WorkerDelay(w)

SpecFixed == InitFixed /\ [][NextFixed]_vars

\* MarkProcessed applied by a client to a queue in any state a run of the
\* Workers can leave it in: every id is processed (with the snapshot of its
\* last fetch), or recorded as failed, or still to be retried with a retry
\* counter below the limit.
InitQueueApi ==
  /\ pending = << >> /\ discovered = Ids
  /\ processed \in SUBSET Ids
  /\ failedIds \in SUBSET (Ids \ processed)
  /\ retryCount \in [Ids -> 0..(MaxRetries - 1)]
  /\ \A i \in processed \cup failedIds : retryCount[i] = 0
  /\ snapshot \in [Ids -> Payloads \cup {NoSnap}]
  /\ \A i \in Ids : (snapshot[i] # NoSnap) = (i \in processed)
  /\ lastSeen = [i \in Ids |-> 0]
  /\ missing = << >> /\ verifiedInactive = {}
  /\ now = 0 /\ faults = 0 /\ apiKey = FALSE
  /\ ingestCount = [i \in Ids |-> 0]
  /\ sinkPayload = [i \in Ids |-> NoSnap]
  /\ inactiveCount = [i \in Ids |-> 0]
  /\ wpc = [w \in Workers |-> "stopped"]
  /\ wid = [w \in Workers |-> NoId]
  /\ wprop = [w \in Workers |-> NoSnap]
  /\ wfetch = [w \in Workers |-> "none"]
  /\ hasChanged = [w \in Workers |-> "unset"]
  /\ wsent = [w \in Workers |-> 0]
  /\ wout = [w \in Workers |-> "none"]
  /\ isRunning = [w \in Workers |-> TRUE]
  /\ emptyQueueCount = [w \in Workers |-> MaxEmptyChecks]
  /\ processedCount = [w \in Workers |-> 0]
  /\ failedCount = [w \in Workers |-> 0]
  /\ changedCount = [w \in Workers |-> 0]
  /\ unchangedCount = [w \in Workers |-> 0]
  /\ wclosed = [w \in Workers |-> FALSE]
  /\ vpc = [v \in Verifiers |-> "stopped"]
  /\ vid = [v \in Verifiers |-> NoId]
  /\ vresp = [v \in Verifiers |-> << >>]
  /\ vRunning = [v \in Verifiers |-> TRUE]
  /\ vEmpty = [v \in Verifiers |-> MaxEmptyChecks]
  /\ verifiedInactiveCount = [v \in Verifiers |-> 0]
  /\ foundActiveCount = [v \in Verifiers |-> 0]
  /\ vclosed = [v \in Verifiers |-> FALSE]
  /\ cpc = "done" /\ cpart = NumPartitions /\ coffset = 0 /\ ctotal = 0
  /\ cids = << >> /\ cadded = 0 /\ cmissing = {}
  /\ ExtraIdle

NextQueueApi == \E i \in Ids : ApiMarkProcessed(i)

SpecQueueApi == InitQueueApi /\ [][NextQueueApi]_vars

\* scrapeAllCities: every city's scrapeCity runs as a task of one event loop,
\* all sharing processedIds.
InitScraper ==
  /\ PipelineIdle /\ apiKey \in BOOLEAN
  /\ HistInit /\ PlanIdle /\ LateIdle /\ ApiIdle /\ CliIdle
  /\ spc = [c \in Cities |-> "phase1"]
  /\ allIds = [c \in Cities |-> << >>]
  /\ sidx = [c \in Cities |-> 1]
  /\ retries = [c \in Cities |-> 0]
  /\ attempts = [c \in Cities |-> 0]
  /\ processedIds = {}
  /\ resultScraped = [c \in Cities |-> 0]
  /\ resultFailed = [c \in Cities |-> 0]
  /\ fetches = [i \in Ids |-> 0]

NextScraper == \E c \in Cities : ScrapeCity(c)

SpecScraper == InitScraper /\ [][NextScraper]_vars

\* The CLI: main builds the configuration from --limit and calls scrape().
InitCli ==
  /\ PipelineIdle /\ apiKey = FALSE
  /\ HistInit /\ PlanIdle /\ LateIdle /\ ApiIdle /\ ScraperIdle
  /\ argsLimit \in 0..MaxLimit
  /\ gpc = "scrape" /\ page = 1 /\ totalPages = 1 /\ allProperties = 0

NextCli == CliScrapePage \/ CliScrapeReturn

SpecCli == InitCli /\ [][NextCli]_vars

\* ================================================================ claims
\* A Worker that has popped an id and is still handling it.
Claimed(w) ==
  wpc[w] \in {"isProcessed", "fetch", "markFailed", "hasChanged", "send", "store",
              "mark", "catch"}

Held(i) == \E w \in Workers : wid[w] = i

\* C1: with several Workers popping concurrently and no failure, no two
\* Workers handle the same id at once, no id is forwarded to the Sink more
\* than once, and every enqueued id is pending, in a Worker's hands or
\* processed -- so that all of them are processed once the pending channel
\* is drained and the Workers are idle.
C1_ScenarioA ==
  /\ \A w1, w2 \in Workers :
       (w1 # w2 /\ Claimed(w1) /\ Claimed(w2)) => wid[w1] # wid[w2]
  /\ (faults = 0) => \A i \in Ids : ingestCount[i] <= 1
  /\ (faults = 0 /\ failedIds = {}) =>
       \A i \in discovered : i \in processed \/ i \in SeqToSet(pending) \/ Held(i)
  /\ (faults = 0 /\ failedIds = {} /\ pending = << >> /\ \A w \in Workers : wid[w] = NoId)
       => discovered \subseteq processed

\* C1 witness: every id was discovered, the Workers shared the work, each id
\* was ingested once and all are processed, without any failure.
C1_Witness ==
  /\ apiKey /\ faults = 0 /\ failedIds = {}
  /\ discovered = Ids /\ processed = Ids
  /\ \A i \in Ids : ingestCount[i] = 1
  /\ \A w \in Workers : processedCount[w] >= 1

\* C2: the Verifier marks an id inactive only after a definitive not-found
\* (a 404 from one of the URL forms); on an ambiguous or blocked check it
\* does not.
C2_InactiveOnlyAfterNotFound ==
  \A v \in Verifiers :
    vpc[v] \in {"markInactive", "markVerified"} =>
      (vresp[v][1] = "404" \/ vresp[v][2] = "404")

\* C3: a detail fetch that fails with a transient network, timeout or parse
\* error leads the Worker to RequeueWithRetry; the id is not dropped as
\* not-found.
C3_TransientIsRequeued ==
  \A w \in Workers :
    wfetch[w] = "TransientError" =>
      /\ wpc[w] \in {"catch", "delay", "backoff"}
      /\ wpc[w] = "delay" => wout[w] \in {"requeued", "failed"}

\* C4: after a definitive not-found the Worker never re-queues the
\* id, never pushes it to the missing channel, does not call the Sink, does
\* not mark it processed, and ends the attempt with the not-found outcome
\* recorded.
C4_NotFoundDropped ==
  \A w \in Workers :
    wfetch[w] = "NotFound" =>
      /\ wid[w] \notin SeqToSet(pending)
      /\ wid[w] \notin SeqToSet(missing)
      /\ wid[w] \notin processed
      /\ wsent[w] = 0
      /\ wpc[w] = "delay" => (wout[w] = "notfound" /\ wid[w] \in failedIds)

\* C5: after an access-denied (403) answer the Worker goes through the catch
\* block, i.e. RequeueWithRetry, and never treats the id as not found; no
\* Worker step marks anything inactive.
C5_AmbiguousIsRequeued ==
  /\ \A w \in Workers :
       wfetch[w] = "Ambiguous" =>
         /\ wpc[w] \in {"catch", "delay", "backoff"}
         /\ wpc[w] = "delay" => wout[w] \in {"requeued", "failed"}
  /\ \A i \in Ids : inactiveCount[i] = 0
  /\ verifiedInactive = {}

C5_Witness ==
  \E w \in Workers :
    /\ wfetch[w] = "Ambiguous" /\ wpc[w] = "delay" /\ wout[w] = "requeued"
    /\ wid[w] \in SeqToSet(pending)

\* C6: with maxAttempts = 3 a call of RequeueWithRetry that finds k earlier
\* failures re-queues the id and returns true while k + 1 < 3, and otherwise
\* returns false, leaves the id out of pending and of the retry records, and
\* the Worker's failure counter goes up by exactly one; the counter never
\* moves when the id was re-queued.
C6_RetryBound ==
  /\ [](\A i \in Ids : retryCount[i] < MaxRetries)
  /\ [](SumOver(failedCount, Workers) <= Cardinality(failedIds))
  /\ [][\A w \in Workers :
          (wpc[w] = "catch" /\ wpc'[w] = "delay") =>
            LET id == wid[w]
                k == retryCount[id]
            IN IF k + 1 < MaxRetries
               THEN /\ pending' = Append(pending, id)
                    /\ retryCount'[id] = k + 1
                    /\ failedCount'[w] = failedCount[w]
                    /\ wout'[w] = "requeued"
               ELSE /\ pending' = pending
                    /\ id \notin SeqToSet(pending')
                    /\ retryCount'[id] = 0
                    /\ id \in failedIds'
                    /\ failedCount'[w] = failedCount[w] + 1
                    /\ wout'[w] = "failed"]_vars

C6_Witness ==
  \E w \in Workers :
    /\ wout[w] = "failed" /\ SumOver(failedCount, Workers) = 1
    /\ wid[w] \notin SeqToSet(pending) /\ retryCount[wid[w]] = 0

\* C7 as stated: when the fetched payload is identical to the stored snapshot,
\* HasChanged returns false, the Sink is not called, the snapshot is left
\* unchanged and no counter but the unchanged counter moves during the rest
\* of the attempt.
C7_OnlyUnchangedCounted ==
  [][\A w \in Workers :
       (wpc'[w] # wpc[w] /\ hasChanged'[w] = "false") =>
         /\ snapshot' = snapshot /\ ingestCount' = ingestCount
         /\ wsent'[w] = 0
         /\ changedCount'[w] = changedCount[w]
         /\ processedCount'[w] = processedCount[w]
         /\ failedCount'[w] = failedCount[w]]_vars

\* C7 amended: when the fetched payload is identical to the stored snapshot,
\* HasChanged returns false, the Sink is not called, the snapshot is left
\* unchanged, the changed counter does not move and the unchanged counter
\* goes up by one; the attempt then goes on to MarkProcessed, whose success
\* also increments the processed counter.
C7_UnchangedSkipsSink ==
  /\ [](\A w \in Workers :
          hasChanged[w] = "false" =>
            /\ wsent[w] = 0
            /\ wpc[w] \in {"mark", "catch", "delay", "backoff"}
            /\ Claimed(w) => snapshot[wid[w]] = wprop[w])
  /\ [][\A w \in Workers :
          (wpc[w] = "hasChanged" /\ wpc'[w] \notin {"hasChanged", "catch"}) =>
            (hasChanged'[w] = "false") = (snapshot[wid[w]] = wprop[w])]_vars
  /\ [][\A w \in Workers :
          (wpc'[w] # wpc[w] /\ hasChanged'[w] = "false") =>
            /\ snapshot' = snapshot /\ ingestCount' = ingestCount
            /\ sinkPayload' = sinkPayload
            /\ changedCount'[w] = changedCount[w]
            /\ CASE wpc[w] = "hasChanged" ->
                      /\ wpc'[w] = "mark"
                      /\ unchangedCount'[w] = unchangedCount[w] + 1
                      /\ processedCount'[w] = processedCount[w]
                      /\ failedCount'[w] = failedCount[w]
                 [] wpc[w] = "mark" ->
                      /\ unchangedCount'[w] = unchangedCount[w]
                      /\ failedCount'[w] = failedCount[w]
                      /\ processedCount'[w] =
                           processedCount[w] + (IF wpc'[w] = "delay" THEN 1 ELSE 0)
                      /\ wpc'[w] = "delay" => wid[w] \in processed'
                 [] wpc[w] = "catch" ->
                      /\ unchangedCount'[w] = unchangedCount[w]
                      /\ processedCount'[w] = processedCount[w]
                 [] OTHER -> FALSE]_vars

C7_Witness ==
  \E w \in Workers :
    /\ hasChanged[w] = "false" /\ wout[w] = "processed"
    /\ unchangedCount[w] = 1 /\ processedCount[w] = 1
    /\ wid[w] \in processed /\ snapshot[wid[w]] = wprop[w]
    /\ apiKey /\ ingestCount[wid[w]] = 1

\* C8 as stated: every attempt whose payload differs from the stored snapshot
\* (or that finds no snapshot) and that runs to completion has made exactly
\* one Ingest call, and the stored snapshot then equals the new payload.
C8_ChangedIsIngestedOnce ==
  \A w \in Workers :
    (hasChanged[w] = "true" /\ wout[w] = "processed") =>
      /\ wsent[w] = 1
      /\ snapshot[wid[w]] = wprop[w]

\* C8 amended: HasChanged returns true exactly when the payload differs from
\* the stored snapshot or there is none; the attempt then makes exactly one
\* Ingest call when an API key is configured and none when it is not, and
\* once StoreSnapshot has succeeded the stored snapshot equals the new
\* payload and the changed counter has gone up by one.
C8_ChangedIsIngestedWhenConfigured ==
  /\ [](\A w \in Workers :
          /\ wsent[w] <= (IF apiKey THEN 1 ELSE 0)
          /\ wsent[w] = 1 => hasChanged[w] = "true"
          /\ (hasChanged[w] = "true" /\ (wpc[w] \in {"store", "mark"} \/ wout[w] = "processed")) =>
               wsent[w] = (IF apiKey THEN 1 ELSE 0)
          /\ (hasChanged[w] = "true" /\ wpc[w] = "mark") =>
               snapshot[wid[w]] = wprop[w])
  /\ [][\A w \in Workers :
          (wpc[w] = "hasChanged" /\ wpc'[w] \notin {"hasChanged", "catch"}) =>
            /\ (hasChanged'[w] = "true") = (snapshot[wid[w]] # wprop[w])
            /\ hasChanged'[w] = "true" => wpc'[w] = (IF apiKey THEN "send" ELSE "store")]_vars
  /\ [][\A w \in Workers :
          (wpc[w] = "send" /\ wpc'[w] = "store") =>
            /\ ingestCount'[wid[w]] = ingestCount[wid[w]] + 1
            /\ sinkPayload'[wid[w]] = wprop[w]]_vars
  /\ [][\A w \in Workers :
          (wpc[w] = "store" /\ wpc'[w] = "mark") =>
            /\ snapshot'[wid[w]] = wprop[w]
            /\ changedCount'[w] = changedCount[w] + 1]_vars
  /\ [][\A w \in Workers :
          (wpc[w] = "mark" /\ wpc'[w] = "delay" /\ hasChanged[w] = "true") =>
            snapshot'[wid[w]] = wprop[w]]_vars

C8_Witness ==
  \E w \in Workers :
    /\ hasChanged[w] = "true" /\ wout[w] = "processed" /\ wsent[w] = 1
    /\ ingestCount[wid[w]] = 1 /\ sinkPayload[wid[w]] = wprop[w]
    /\ snapshot[wid[w]] = wprop[w] /\ changedCount[w] = 1

\* C9: EnqueueIfNew adds nothing for an id the queue already knows: a push
\* leaves the pending entries of every known id as they were, the count it
\* returns is the number of entries it appended (one per id not known
\* before), and the pending channel never holds the same id twice, also when
\* several pages or partitions report the same id.
C9_EnqueueIfNewDedups ==
  /\ [](\A i \in Ids : Occurrences(pending, i) <= 1)
  /\ [][(cpc \in {"first", "page"} /\ <<cpc, cpart, coffset, ctotal>>' # <<cpc, cpart, coffset, ctotal>>) =>
          /\ \A i \in discovered : Occurrences(pending', i) = Occurrences(pending, i)
          /\ discovered \subseteq discovered'
          /\ Len(pending') - Len(pending) = Cardinality(discovered' \ discovered)
          /\ (cids' # cids \/ cadded' # cadded \/ pending' # pending) =>
               /\ cadded' = Len(pending') - Len(pending)
               /\ cadded' = Cardinality(SeqToSet(cids') \ discovered)]_vars

\* C9 witness: a page reported an id that was already known; the push added
\* nothing and returned 0.
C9_Witness ==
  /\ cids # << >> /\ cadded = 0
  /\ \A i \in SeqToSet(cids) : i \in discovered /\ Occurrences(pending, i) <= 1
  /\ cpc = "missing"

\* C10: a Worker that exits on SIGINT / SIGTERM has finished the item it had
\* in flight: no id is left popped with no outcome (processed, skipped as
\* processed, re-queued, or recorded as failed).
C10_ShutdownLeavesNoItem ==
  \A w \in Workers :
    wpc[w] = "exited" => (wid[w] = NoId \/ wout[w] # "none")

\* C11: the Worker loop and the Verifier loop stop once MaxEmptyChecks
\* consecutive empty polls are reached: a poll that yields an id resets the
\* empty-poll counter to 0, an empty poll adds one to it, the loop leaves as
\* soon as the counter reaches the bound, and every loop that is kept
\* scheduled ends up stopped for good.
C11_IdleBoundStopsLoops ==
  /\ [](\A w \in Workers :
          /\ emptyQueueCount[w] <= MaxEmptyChecks
          /\ wpc[w] \notin {"stopped", "exited"} => emptyQueueCount[w] < MaxEmptyChecks)
  /\ [](\A v \in Verifiers :
          /\ vEmpty[v] <= MaxEmptyChecks
          /\ vpc[v] \notin {"stopped", "exited"} => vEmpty[v] < MaxEmptyChecks)
  /\ [][\A w \in Workers :
          wpc[w] = "pop" =>
            /\ wid'[w] # NoId => emptyQueueCount'[w] = 0
            /\ (wid'[w] = NoId /\ emptyQueueCount'[w] # emptyQueueCount[w]) =>
                 /\ pending = << >>
                 /\ emptyQueueCount'[w] = emptyQueueCount[w] + 1
                 /\ emptyQueueCount'[w] = MaxEmptyChecks => wpc'[w] = "stopped"]_vars
  /\ [][\A v \in Verifiers :
          vpc[v] = "pop" =>
            /\ vid'[v] # NoId => vEmpty'[v] = 0
            /\ (vid'[v] = NoId /\ vEmpty'[v] # vEmpty[v]) =>
                 /\ missing = << >>
                 /\ vEmpty'[v] = vEmpty[v] + 1
                 /\ vEmpty'[v] = MaxEmptyChecks => vpc'[v] = "stopped"]_vars
  /\ <>[](\A w \in Workers : wpc[w] \in {"stopped", "exited"})
  /\ <>[](\A v \in Verifiers : vpc[v] \in {"stopped", "exited"})

\* C11 witness: a Worker and a Verifier that each handled an id (which reset
\* their counters) have stopped on the idle bound, without any signal.
C11_Witness ==
  /\ \E w \in Workers :
       /\ wpc[w] = "stopped" /\ isRunning[w] /\ emptyQueueCount[w] = MaxEmptyChecks
       /\ processedCount[w] + failedCount[w] >= 1
  /\ \E v \in Verifiers :
       /\ vpc[v] = "stopped" /\ vRunning[v] /\ vEmpty[v] = MaxEmptyChecks
       /\ verifiedInactiveCount[v] + foundActiveCount[v] >= 1

\* C12: no error raised while an id is handled ends a loop.  A loop is
\* stopped only after stop() (isRunning false) or on the idle-poll bound; the
\* process exits only through the signal handler that called stop(); after
\* the catch block of processListing and after the back-off of start() the
\* loop goes back to its test and, if still running, to the next poll.
C12_ErrorsNeverEndLoop ==
  /\ [](\A w \in Workers :
          /\ wpc[w] = "stopped" => (~isRunning[w] \/ emptyQueueCount[w] = MaxEmptyChecks)
          /\ wpc[w] = "exited" => (~isRunning[w] /\ wclosed[w]))
  /\ [](\A v \in Verifiers :
          /\ vpc[v] = "stopped" => (~vRunning[v] \/ vEmpty[v] = MaxEmptyChecks)
          /\ vpc[v] = "exited" => (~vRunning[v] /\ vclosed[v]))
  /\ [][\A w \in Workers :
          (wpc'[w] # wpc[w] /\ wpc'[w] # "exited") =>
            /\ wpc[w] \in {"isProcessed", "fetch", "markFailed", "hasChanged", "send",
                           "store", "mark"} => wpc'[w] # "stopped"
            /\ wpc[w] = "catch" => wpc'[w] \in {"delay", "backoff"}
            /\ wpc[w] \in {"delay", "backoff"} =>
                 wpc'[w] = (IF isRunning[w] THEN "pop" ELSE "stopped")]_vars
  /\ [][\A v \in Verifiers :
          (vpc'[v] # vpc[v] /\ vpc'[v] # "exited") =>
            /\ vpc[v] \in {"verify", "updateLastSeen", "markInactive", "markVerified"} =>
                 vpc'[v] \in {"updateLastSeen", "markInactive", "markVerified", "delay"}
            /\ vpc[v] \in {"delay", "backoff"} =>
                 vpc'[v] = (IF vRunning[v] THEN "pop" ELSE "stopped")]_vars

\* C12 witness: a Worker is polling again after a queue transport error and a
\* failed attempt that was re-queued, and a Verifier is polling again after
\* it handled an id.
C12_Witness ==
  /\ \E w \in Workers :
       /\ wpc[w] = "pop" /\ isRunning[w] /\ faults = MaxFaults
       /\ \E i \in Ids : retryCount[i] >= 1
  /\ \E v \in Verifiers :
       vpc[v] = "pop" /\ vRunning[v] /\ missing = << >> /\ vEmpty[v] = 0

\* C13: no popped id vanishes: every id the queue knows is pending, in a
\* Worker's hands, marked processed, or recorded as failed (permanently
\* failed or dropped as not found); and an attempt that has ended has
\* recorded exactly one outcome.
C13_NoPoppedIdVanishes ==
  /\ \A i \in discovered :
       i \in SeqToSet(pending) \/ Held(i) \/ i \in processed \/ i \in failedIds
  /\ \A w \in Workers :
       (wpc[w] \in {"delay", "backoff"} /\ wid[w] # NoId) =>
         wout[w] \in {"skipped", "processed", "requeued", "failed", "notfound"}

\* The Verifier's check of its current id met a 404 on one of the URL forms.
VerifierSaw404(v) == vresp[v] # << >> /\ (vresp[v][1] = "404" \/ vresp[v][2] = "404")

\* C14 as stated: a check that ends in a definitive not-found leads to
\* exactly one Sink MarkInactive call for the id, and MarkVerifiedInactive is
\* recorded for it.
C14_NotFoundMarkedInactiveOnce ==
  \A v \in Verifiers :
    (VerifierSaw404(v) /\ vid[v] \in verifiedInactive) => inactiveCount[vid[v]] = 1

\* C14 amended: after a definitive not-found the Verifier never refreshes
\* last_seen; it calls Sink MarkInactive exactly once when an API key is
\* configured and not at all when none is; then MarkVerifiedInactive is
\* recorded and the verified-inactive counter goes up by one.  A failing
\* MarkInactive or MarkVerifiedInactive (a Sink or transport error, or a
\* connection that stop() has closed) ends the attempt with the id not
\* recorded.
C14_NotFoundMarkedInactiveWhenConfigured ==
  /\ [](\A i \in Ids : inactiveCount[i] <= (IF apiKey THEN 1 ELSE 0))
  /\ [](\A v \in Verifiers :
          VerifierSaw404(v) =>
            /\ vpc[v] \in {"markInactive", "markVerified", "delay", "exited"}
            /\ vpc[v] = "markInactive" => (apiKey /\ inactiveCount[vid[v]] = 0)
            /\ vpc[v] = "markVerified" => inactiveCount[vid[v]] = (IF apiKey THEN 1 ELSE 0)
            /\ vid[v] \in verifiedInactive =>
                 (vpc[v] \in {"delay", "exited"} /\ inactiveCount[vid[v]] = (IF apiKey THEN 1 ELSE 0))
            /\ (vpc[v] = "delay" /\ faults = 0 /\ ~vclosed[v]) => vid[v] \in verifiedInactive
            /\ lastSeen[vid[v]] = 0)
  /\ [][\A v \in Verifiers :
          (vpc[v] = "markInactive" /\ vpc'[v] = "markVerified") =>
            inactiveCount'[vid[v]] = inactiveCount[vid[v]] + 1]_vars
  /\ [][\A v \in Verifiers :
          (vpc[v] = "markVerified" /\ vpc'[v] = "delay") =>
            (vid[v] \in verifiedInactive') =
              (verifiedInactiveCount'[v] = verifiedInactiveCount[v] + 1)]_vars

C14_Witness ==
  \E v \in Verifiers :
    /\ VerifierSaw404(v) /\ vpc[v] = "delay" /\ apiKey
    /\ inactiveCount[vid[v]] = 1 /\ vid[v] \in verifiedInactive
    /\ verifiedInactiveCount[v] >= 1

\* The Verifier's check of its current id got a page with valid ad data.
VerifierSawAd(v) == vresp[v] # << >> /\ (vresp[v][1] = "ad" \/ vresp[v][2] = "ad")

\* C15: when the check of a missing-channel id finds the item (a page with
\* valid ad data), the Verifier calls UpdateLastSeen and, once that call has
\* returned, last_seen is refreshed and the restored-active counter is one
\* higher (a rejected call leaves both as they were); it calls neither Sink
\* MarkInactive nor MarkVerifiedInactive, and the id stays processed.
C15_FoundRefreshesLastSeen ==
  /\ [](\A v \in Verifiers :
          VerifierSawAd(v) =>
            /\ vpc[v] \in {"updateLastSeen", "delay", "exited"}
            /\ inactiveCount[vid[v]] = 0
            /\ vid[v] \notin verifiedInactive
            /\ vid[v] \in processed
            /\ (vpc[v] = "delay" /\ faults = 0 /\ ~vclosed[v]) => foundActiveCount[v] >= 1)
  /\ [][\A v \in Verifiers :
          (vpc[v] = "verify" /\ VerifierSawAd(v)') => vpc'[v] = "updateLastSeen"]_vars
  /\ [][\A v \in Verifiers :
          (VerifierSawAd(v) /\ vpc[v] = "updateLastSeen" /\ vpc'[v] = "delay") =>
            \/ /\ lastSeen'[vid[v]] = now
               /\ foundActiveCount'[v] = foundActiveCount[v] + 1
               /\ faults' = faults
            \/ /\ vclosed[v] \/ faults' = faults + 1
               /\ lastSeen' = lastSeen
               /\ foundActiveCount'[v] = foundActiveCount[v]]_vars
  /\ [][\A v \in Verifiers :
          VerifierSawAd(v) =>
            /\ inactiveCount'[vid[v]] = inactiveCount[vid[v]]
            /\ vid[v] \notin verifiedInactive'
            /\ verifiedInactiveCount'[v] = verifiedInactiveCount[v]
            /\ vid[v] \in processed']_vars

C15_Witness ==
  \E v \in Verifiers :
    /\ VerifierSawAd(v) /\ vpc[v] = "delay"
    /\ lastSeen[vid[v]] = now /\ now > StaleAfter
    /\ foundActiveCount[v] >= 1 /\ vid[v] \in processed
    /\ inactiveCount[vid[v]] = 0 /\ vid[v] \notin verifiedInactive

\* FindStale as the specification words it: the processed ids whose last_seen
\* is older than the threshold and that are not verified inactive.
StaleNow == {i \in processed : now - lastSeen[i] >= StaleAfter /\ i \notin verifiedInactive}

\* C16: an item is never deactivated on a discovery miss alone.  Every Sink
\* MarkInactive call is made by a Verifier for the id it holds and has
\* checked directly; a Verifier gets an id only by popping it from the
\* missing channel; the missing channel grows only by the Coordinator's
\* PushMissing of ids its FindStale call returned, all of them processed and
\* stale at that call.  No step of the Coordinator or of a Worker calls
\* MarkInactive.
C16_InactiveOnlyThroughVerifier ==
  /\ [](\A v \in Verifiers :
          vpc[v] \in {"markInactive", "markVerified"} => (vid[v] # NoId /\ vresp[v] # << >>))
  /\ [][\A i \in Ids :
          inactiveCount'[i] # inactiveCount[i] =>
            /\ inactiveCount'[i] = inactiveCount[i] + 1
            /\ \E v \in Verifiers :
                 vpc[v] = "markInactive" /\ vid[v] = i /\ vresp[v] # << >>
                   /\ vpc'[v] = "markVerified"]_vars
  /\ [][\A v \in Verifiers :
          (vid'[v] # vid[v] /\ vid'[v] # NoId) =>
            /\ vpc[v] = "pop" /\ vpc'[v] = "verify"
            /\ missing # << >> /\ vid'[v] = Head(missing) /\ missing' = Tail(missing)]_vars
  /\ [][Len(missing') > Len(missing) =>
          /\ cpc = "pushMissing"
          /\ \A k \in 1..Len(missing) : missing'[k] = missing[k]
          /\ \A k \in (Len(missing) + 1)..Len(missing') : missing'[k] \in cmissing]_vars
  /\ [][(cmissing' # cmissing /\ cmissing' # {}) =>
          (cpc = "missing" /\ cmissing' = StaleNow)]_vars
  /\ [][(workerVars' # workerVars \/ coordVars' # coordVars) =>
          inactiveCount' = inactiveCount]_vars

\* C16 witness: the Coordinator flagged an id and pushed it, the Verifier
\* popped and checked it and called MarkInactive for it, while the Worker
\* processed the newly discovered id.
C16_Witness ==
  /\ cpc = "done" /\ missing = << >> /\ processed = Ids
  /\ \E v \in Verifiers :
       /\ vpc[v] = "markVerified" /\ inactiveCount[vid[v]] = 1
       /\ \A i \in Ids \ {vid[v]} : inactiveCount[i] = 0

\* C17: FindStale returns exactly the processed ids whose last_seen is older
\* than the threshold and that are not verified inactive; an id that
\* MarkVerifiedInactive recorded or whose last_seen UpdateLastSeen refreshed
\* is not returned, and the Coordinator does not push such an id to the
\* missing channel again.
C17_StaleUntilVerifiedOrRefreshed ==
  /\ [][(cpc = "missing" /\ cpc' \in {"pushMissing", "done"}) =>
          /\ (cpc' = "pushMissing") = (StaleNow # {})
          /\ cpc' = "pushMissing" => cmissing' = StaleNow
          /\ \A i \in Ids :
               (i \in verifiedInactive \/ now - lastSeen[i] < StaleAfter) => i \notin cmissing']_vars
  /\ [][\A k \in (Len(missing) + 1)..Len(missing') :
          /\ missing'[k] \notin verifiedInactive
          /\ now - lastSeen[missing'[k]] >= StaleAfter]_vars

\* C18: a discovery pass always completes.  Whatever the page fetches of a
\* partition answer, a persistent 401 included, the Coordinator leaves every
\* partition it has entered, and, unless a queue command fails, the pass
\* reaches the missing-detection step.
C18_PassAlwaysCompletes ==
  /\ \A p \in 1..NumPartitions :
       (cpart = p /\ cpc \in {"first", "page", "first401", "page401"})
         ~> ~(cpart = p /\ cpc \in {"first", "page", "first401", "page401"})
  /\ <>(cpc \in {"missing", "pushMissing", "done"} \/ faults > 0)

\* C19: the paging loop of a partition takes pagination for exhausted from
\* the ids it observed, not from the advertised total: it asks for a further
\* page only after a page that held ids.
C19_PagingStopsOnObservedIds ==
  [][(cpc \in {"first", "page"} /\ cpc' = "page" /\ coffset' # coffset) =>
       cids' # << >>]_vars

\* C20: in one discovery pass FindStale and PushMissing are called once,
\* after every partition has been attempted, also when partitions failed.
\* Nothing is pushed to the missing channel, and FindStale is not called,
\* before the last partition has been attempted; the pass calls FindStale at
\* most once; and every pass comes to the point where FindStale has been
\* called and has answered.
C20_MissingDetectionOncePerPass ==
  /\ [](cpc \in {"missing", "pushMissing", "done"} => cpart = NumPartitions)
  /\ [][missing' # missing => (cpc = "pushMissing" /\ cpart = NumPartitions)]_vars
  /\ [][(cpc \in {"pushMissing", "done", "aborted"}) => cpc' # "missing"]_vars
  /\ [][cpc = "done" => cpc' = "done"]_vars
  /\ <>(cpc \in {"pushMissing", "done"})

\* C21: the Coordinator enqueues per page.  The ids of a page are passed to
\* EnqueueIfNew in the step that fetched it, before the next page is asked
\* for: while a further page is still to be fetched the ids of the last page
\* are known to the queue, and no later step of the pass, a failing page
\* included, takes an entry out of the pending channel.
C21_EnqueuePerPage ==
  /\ [](cpc \in {"page", "page401"} =>
          /\ SeqToSet(cids) \subseteq discovered
          /\ SeqToSet(cids) \subseteq SeqToSet(pending) \cup processed)
  /\ [][(cpc \in {"first", "page"} /\ cids' # cids) =>
          /\ SeqToSet(cids') \subseteq discovered'
          /\ \A i \in SeqToSet(cids') \ discovered : i \in SeqToSet(pending')]_vars
  /\ [][/\ Len(pending') >= Len(pending)
        /\ \A k \in 1..Len(pending) : pending'[k] = pending[k]]_vars

\* C21 witness: two pages of a partition were pushed and are pending while
\* the third page is still to be fetched.
C21_Witness ==
  /\ cpc = "page" /\ coffset = 2 * PageLimit /\ ctotal > coffset
  /\ Len(pending) = 2 /\ cids # << >> /\ cadded = 1

C23_OncePerIdAcrossCities ==
  /\ \A i \in Ids : fetches[i] <= 1 /\ ingestCount[i] <= 1
  /\ SumOver(resultScraped, Cities) <= Cardinality(processedIds)

\* C24: in Phase 2 an id whose processing keeps failing is attempted at most
\* 3 times by the retry loop of a city.
C24_AtMostThreeAttempts == \A c \in Cities : attempts[c] <= 3

\* C25: with --limit L (L >= 1) scrape() returns no more than L properties.
C25_LimitBoundsListings ==
  (gpc = "returned" /\ argsLimit >= 1) => allProperties <= argsLimit

\* C26: every id in the processed set has a stored snapshot, that snapshot is
\* the payload of the most recent successful fetch of the id, and its
\* last_seen is not older than that fetch.
C26_ProcessedHasFreshSnapshot ==
  \A i \in processed :
    /\ snapshot[i] # NoSnap
    /\ snapshot[i] = lastFetched[i]
    /\ lastSeen[i] >= lastFetchedAt[i]

\* A Verifier that has popped an id from the missing channel and is still
\* checking it.
VerifierClaimed(v) ==
  vpc[v] \in {"verify", "updateLastSeen", "markInactive", "markVerified"}

\* The processes (Workers and Verifiers) that hold id i as their claim.
ClaimsOf(i) ==
  Cardinality({w \in Workers : Claimed(w) /\ wid[w] = i})
    + Cardinality({v \in Verifiers : VerifierClaimed(v) /\ vid[v] = i})

\* C27: an id is in at most one of the pending channel, the hands of a Worker
\* or Verifier, and the missing channel; it is never claimed by two processes.
C27_OnePlacePerId ==
  \A i \in Ids :
    /\ ClaimsOf(i) <= 1
    /\ (IF i \in SeqToSet(pending) THEN 1 ELSE 0)
         + (IF ClaimsOf(i) > 0 THEN 1 ELSE 0)
         + (IF i \in SeqToSet(missing) THEN 1 ELSE 0) <= 1

\* C28: a Worker that pops an id already in the processed set skips it.  When
\* isProcessed answers, the Worker goes straight to the end of the iteration
\* without a detail fetch; from the pop to the end of the iteration it makes
\* no Sink call, writes no snapshot and moves none of its counters, and the
\* queue's record of the id (snapshot, last_seen, retry counter, processed
\* membership) stays as it was.
C28_ProcessedIdSkipped ==
  /\ [][\A w \in Workers :
          (wpc[w] = "isProcessed" /\ wid[w] \in processed
             /\ wpc'[w] \notin {"isProcessed", "catch"}) =>
            (wpc'[w] = "delay" /\ wout'[w] = "skipped")]_vars
  /\ [](\A w \in Workers :
          wout[w] = "skipped" =>
            /\ wpc[w] = "delay" /\ wid[w] \in processed
            /\ wfetch[w] = "none" /\ wsent[w] = 0 /\ wprop[w] = NoSnap)
  /\ [][\A w \in Workers :
          (/\ wpc'[w] # wpc[w]
           /\ \/ wpc[w] = "pop" /\ wpc'[w] = "isProcessed" /\ wid'[w] \in processed
              \/ wpc[w] = "isProcessed" /\ wout'[w] = "skipped"
              \/ wpc[w] = "delay" /\ wout[w] = "skipped") =>
            /\ snapshot' = snapshot /\ lastSeen' = lastSeen
            /\ sinkVars' = sinkVars /\ histVars' = histVars
            /\ processed' = processed /\ retryCount' = retryCount
            /\ failedIds' = failedIds
            /\ processedCount'[w] = processedCount[w]
            /\ changedCount'[w] = changedCount[w]
            /\ unchangedCount'[w] = unchangedCount[w]
            /\ failedCount'[w] = failedCount[w]]_vars

C28_Witness ==
  \E w \in Workers :
    /\ wpc[w] = "delay" /\ wout[w] = "skipped" /\ wid[w] \in processed
    /\ processedCount[w] = 0 /\ ingestCount[wid[w]] = 1

\* C29: after a successful fetch the Worker always goes on to MarkProcessed,
\* on the changed branch and on the unchanged branch alike: processListing
\* ends after a successful fetch either through markProcessed, with the id in
\* the processed set, or through the catch block, which only a raised error
\* enters.
C29_SuccessIsMarkedProcessed ==
  /\ [](\A w \in Workers :
          (wpc[w] = "delay" /\ wfetch[w] = "Found") =>
            \/ wout[w] = "processed" /\ wid[w] \in processed
            \/ wout[w] \in {"requeued", "failed"})
  /\ [](\A w \in Workers :
          wpc[w] = "mark" => (wfetch[w] = "Found" /\ hasChanged[w] \in {"true", "false"}))
  /\ [][\A w \in Workers :
          (wfetch[w] = "Found" /\ wpc'[w] # wpc[w]
             /\ wpc[w] \in {"hasChanged", "send", "store", "mark"}) =>
            /\ wpc'[w] = "catch" => faults' = faults + 1
            /\ wpc'[w] # "catch" =>
                 CASE wpc[w] = "hasChanged" -> wpc'[w] \in {"send", "store", "mark"}
                   [] wpc[w] = "send" -> wpc'[w] = "store"
                   [] wpc[w] = "store" -> wpc'[w] = "mark"
                   [] wpc[w] = "mark" ->
                        /\ wpc'[w] = "delay" /\ wout'[w] = "processed"
                        /\ wid[w] \in processed']_vars

C29_Witness ==
  \E w \in Workers :
    /\ wpc[w] = "delay" /\ wout[w] = "processed" /\ wfetch[w] = "Found"
    /\ hasChanged[w] = "false" /\ wid[w] \in processed

\* Whether the fixed answers of the source for id i amount to a fetched property.
PlanFound(i) == fetchPropertyDetail(fetchPlan[i][1][1], fetchPlan[i][1][2]) = "found"

\* C30: for fixed pending ids and fixed fetch results, the processed set, the
\* snapshots and the Sink calls the Workers end with are determined by each
\* id's own fetch result alone, whatever the order in which the ids were
\* popped and whichever Worker handled which id.
C30_OutcomeIndependentOfOrder ==
  (\A w \in Workers : wpc[w] = "stopped") =>
    /\ pending = << >>
    /\ processed = {i \in Ids : PlanFound(i)}
    /\ \A i \in Ids :
         /\ snapshot[i] = (IF PlanFound(i) THEN fetchPlan[i][2] ELSE NoSnap)
         /\ ingestCount[i] = (IF apiKey /\ PlanFound(i) THEN 1 ELSE 0)
         /\ sinkPayload[i] = (IF apiKey /\ PlanFound(i) THEN fetchPlan[i][2] ELSE NoSnap)

C30_Witness ==
  /\ \A w \in Workers : wpc[w] = "stopped" /\ processedCount[w] = 1
  /\ processed = Ids /\ apiKey
  /\ \A i \in Ids : ingestCount[i] = 1 /\ snapshot[i] = 1

\* ------------------------------------------------- snapshot ownership
\* The three programs on one queue: the Coordinator is at the last partition
\* of a pass (paging, then identifyMissingProperties), a Worker consumes the
\* pending list and the Verifier the missing list.  An earlier pass left one
\* id processed and stale, and one id pending.
InitOwner ==
  /\ pending = <<1>> /\ discovered = Ids /\ processed = Ids \ {1}
  /\ snapshot \in [Ids -> Payloads \cup {NoSnap}]
  /\ \A i \in Ids : snapshot[i] = (IF i \in processed THEN 1 ELSE NoSnap)
  /\ lastSeen = [i \in Ids |-> 0]
  /\ retryCount = [i \in Ids |-> 0]
  /\ failedIds = {} /\ verifiedInactive = {}
  /\ now = StaleAfter /\ faults = 0 /\ apiKey \in BOOLEAN
  /\ \/ missing = << >>
     \/ missing = pushToMissingQueue(<< >>, verifiedInactive,
                    findMissingProperties(processed, lastSeen, verifiedInactive, now, StaleAfter))
  /\ ingestCount = [i \in Ids |-> IF apiKey /\ i \in processed THEN 1 ELSE 0]
  /\ sinkPayload = [i \in Ids |-> IF apiKey THEN snapshot[i] ELSE NoSnap]
  /\ inactiveCount = [i \in Ids |-> 0]
  /\ wpc = [w \in Workers |-> IF w <= NumPassWorkers THEN "pop" ELSE "stopped"]
  /\ wid = [w \in Workers |-> NoId]
  /\ wprop = [w \in Workers |-> NoSnap]
  /\ wfetch = [w \in Workers |-> "none"]
  /\ hasChanged = [w \in Workers |-> "unset"]
  /\ wsent = [w \in Workers |-> 0]
  /\ wout = [w \in Workers |-> "none"]
  /\ isRunning = [w \in Workers |-> TRUE]
  /\ emptyQueueCount = [w \in Workers |-> IF w <= NumPassWorkers THEN 0 ELSE MaxEmptyChecks]
  /\ processedCount = [w \in Workers |-> 0]
  /\ failedCount = [w \in Workers |-> 0]
  /\ changedCount = [w \in Workers |-> 0]
  /\ unchangedCount = [w \in Workers |-> 0]
  /\ wclosed = [w \in Workers |-> FALSE]
  /\ vpc = [v \in Verifiers |-> "pop"]
  /\ vid = [v \in Verifiers |-> NoId]
  /\ vresp = [v \in Verifiers |-> << >>]
  /\ vRunning = [v \in Verifiers |-> TRUE]
  /\ vEmpty = [v \in Verifiers |-> 0]
  /\ verifiedInactiveCount = [v \in Verifiers |-> 0]
  /\ foundActiveCount = [v \in Verifiers |-> 0]
  /\ vclosed = [v \in Verifiers |-> FALSE]
  /\ cpc = "first" /\ cpart = NumPartitions /\ coffset = 0 /\ ctotal = 0
  /\ cids = << >> /\ cadded = 0 /\ cmissing = {}
  /\ ExtraIdle

NextOwner ==
  \/ CoordStep
  \/ \E w \in 1..NumPassWorkers : WorkerStep(w)
  \/ \E v \in Verifiers : VerifierStep(v)

SpecOwner == InitOwner /\ [][NextOwner]_vars

\* C31: the snapshot payload of an id is written only by a Worker, and only
\* with the payload that Worker's fetch of the id returned: a step that
\* changes snapshot[i] is the storePropertySnapshot step of a Worker holding
\* i and the payload its fetch found, and no step of the Coordinator
\* (pushListingIds, findMissingProperties, pushToMissingQueue) or of the
\* Verifier (updateLastSeen, markVerifiedInactive) changes a snapshot.
C31_SnapshotWrittenOnlyByWorker ==
  [][\A i \in Ids :
       snapshot'[i] # snapshot[i] =>
         /\ \E w \in Workers :
              /\ wpc[w] = "store" /\ wid[w] = i
              /\ wprop[w] # NoSnap
              /\ snapshot'[i] = wprop[w]
              /\ wpc'[w] = "mark"
         /\ UNCHANGED <<coordVars, verifierVars>>]_vars

\* The Verifier has marked one id inactive and the Coordinator has finished
\* its pass, and a Worker has stored a new payload for another id.
C31_Witness ==
  /\ cpc = "done"
  /\ \E v \in Verifiers : verifiedInactiveCount[v] + foundActiveCount[v] > 0
  /\ \E w \in Workers : changedCount[w] > 0
  /\ \E i \in Ids : snapshot[i] # NoSnap /\ snapshot[i] = lastFetched[i] /\ i \notin processed

\* C32: after every id a Worker has handled, whatever the outcome
\* (processed, skipped, not found, re-queued, failed), the Worker waits the
\* rate-limit delay before its next pop: a Worker whose processListing has
\* returned with an outcome is at the randomDelay of start(), and a Worker
\* holding an id comes back to popListingId only from that delay (or, when an
\* error left processListing without an outcome, from the delay of the
\* catch block of start()).
C32_DelayBeforeNextPop ==
  [][\A w \in Workers :
       /\ wout[w] \in {"processed", "skipped", "notfound", "requeued", "failed"}
            => wpc[w] = "delay"
       /\ (wid[w] # NoId /\ wpc[w] # "pop" /\ wpc'[w] = "pop")
            => IF wout[w] # "none" THEN wpc[w] = "delay" ELSE wpc[w] = "backoff"]_vars

\* One Worker waits after an id it skipped, the other after an id that used
\* up its retries.
C32_Witness ==
  \E w1, w2 \in Workers :
    /\ wpc[w1] = "delay" /\ wout[w1] = "skipped"
    /\ wpc[w2] = "delay" /\ wout[w2] = "failed"

\* --------------------------------------------------- delays before a retry
\* A Worker on a queue a discovery pass has filled, with the ledger of waited
\* delays switched on.
InitBackoff ==
  /\ pending = AllIds[NumIds] /\ discovered = Ids /\ processed = {}
  /\ snapshot = [i \in Ids |-> NoSnap]
  /\ lastSeen = [i \in Ids |-> 0]
  /\ retryCount = [i \in Ids |-> 0]
  /\ failedIds = {} /\ missing = << >> /\ verifiedInactive = {}
  /\ now = 0 /\ faults = 0 /\ apiKey \in BOOLEAN
  /\ ingestCount = [i \in Ids |-> 0]
  /\ sinkPayload = [i \in Ids |-> NoSnap]
  /\ inactiveCount = [i \in Ids |-> 0]
  /\ wpc = [w \in Workers |-> IF w <= NumPassWorkers THEN "pop" ELSE "stopped"]
  /\ wid = [w \in Workers |-> NoId]
  /\ wprop = [w \in Workers |-> NoSnap]
  /\ wfetch = [w \in Workers |-> "none"]
  /\ hasChanged = [w \in Workers |-> "unset"]
  /\ wsent = [w \in Workers |-> 0]
  /\ wout = [w \in Workers |-> "none"]
  /\ isRunning = [w \in Workers |-> TRUE]
  /\ emptyQueueCount = [w \in Workers |-> IF w <= NumPassWorkers THEN 0 ELSE MaxEmptyChecks]
  /\ processedCount = [w \in Workers |-> 0]
  /\ failedCount = [w \in Workers |-> 0]
  /\ changedCount = [w \in Workers |-> 0]
  /\ unchangedCount = [w \in Workers |-> 0]
  /\ wclosed = [w \in Workers |-> FALSE]
  /\ vpc = [v \in Verifiers |-> "stopped"]
  /\ vid = [v \in Verifiers |-> NoId]
  /\ vresp = [v \in Verifiers |-> << >>]
  /\ vRunning = [v \in Verifiers |-> TRUE]
  /\ vEmpty = [v \in Verifiers |-> MaxEmptyChecks]
  /\ verifiedInactiveCount = [v \in Verifiers |-> 0]
  /\ foundActiveCount = [v \in Verifiers |-> 0]
  /\ vclosed = [v \in Verifiers |-> FALSE]
  /\ cpc = "done" /\ cpart = NumPartitions /\ coffset = 0 /\ ctotal = 0
  /\ cids = << >> /\ cadded = 0 /\ cmissing = {}
  /\ HistInit /\ PlanIdle /\ ApiIdle /\ ScraperIdle /\ CliIdle
  /\ ledger = TRUE /\ waited = [i \in Ids |-> 0] /\ ObsIdle /\ CmpIdle /\ ReqIdle

NextBackoff == \E w \in 1..NumPassWorkers : WorkerStep(w)

SpecBackoff == InitBackoff /\ [][NextBackoff]_vars

\* C33: every retry of a failed id is preceded by a backoff delay: before
\* retry number k (k >= 1) of an id, that is while a Worker holds the id with
\* retry counter k, at least RequestDelayMs * 2^(k-1) have been waited since
\* the id was re-queued.
C33_RetryPrecededByBackoff ==
  \A w \in Workers :
    (wpc[w] \in {"isProcessed", "fetch"} /\ wid[w] # NoId /\ retryCount[wid[w]] >= 1) =>
      waited[wid[w]] >= RequestDelayMs * 2 ^ (retryCount[wid[w]] - 1)

\* ------------------------------------------------ ids read on fetched pages
\* A discovery pass on its own, with the ledger of the ids it reads and
\* passes on switched on.
InitObserved ==
  /\ pending = << >>
  /\ \E S \in SUBSET Ids : discovered = S /\ processed = S
  /\ snapshot \in [Ids -> Payloads \cup {NoSnap}]
  /\ \A i \in Ids : snapshot[i] = (IF i \in processed THEN 1 ELSE NoSnap)
  /\ lastSeen = [i \in Ids |-> 0]
  /\ retryCount = [i \in Ids |-> 0]
  /\ failedIds = {} /\ missing = << >> /\ verifiedInactive = {}
  /\ now = 0 /\ faults = 0 /\ apiKey \in BOOLEAN
  /\ ingestCount = [i \in Ids |-> IF apiKey /\ i \in processed THEN 1 ELSE 0]
  /\ sinkPayload = [i \in Ids |-> IF apiKey THEN snapshot[i] ELSE NoSnap]
  /\ inactiveCount = [i \in Ids |-> 0]
  /\ wpc = [w \in Workers |-> "stopped"]
  /\ wid = [w \in Workers |-> NoId]
  /\ wprop = [w \in Workers |-> NoSnap]
  /\ wfetch = [w \in Workers |-> "none"]
  /\ hasChanged = [w \in Workers |-> "unset"]
  /\ wsent = [w \in Workers |-> 0]
  /\ wout = [w \in Workers |-> "none"]
  /\ isRunning = [w \in Workers |-> TRUE]
  /\ emptyQueueCount = [w \in Workers |-> MaxEmptyChecks]
  /\ processedCount = [w \in Workers |-> 0]
  /\ failedCount = [w \in Workers |-> 0]
  /\ changedCount = [w \in Workers |-> 0]
  /\ unchangedCount = [w \in Workers |-> 0]
  /\ wclosed = [w \in Workers |-> FALSE]
  /\ vpc = [v \in Verifiers |-> "stopped"]
  /\ vid = [v \in Verifiers |-> NoId]
  /\ vresp = [v \in Verifiers |-> << >>]
  /\ vRunning = [v \in Verifiers |-> TRUE]
  /\ vEmpty = [v \in Verifiers |-> MaxEmptyChecks]
  /\ verifiedInactiveCount = [v \in Verifiers |-> 0]
  /\ foundActiveCount = [v \in Verifiers |-> 0]
  /\ vclosed = [v \in Verifiers |-> FALSE]
  /\ cpc = "first" /\ cpart = 1 /\ coffset = 0 /\ ctotal = 0
  /\ cids = << >> /\ cadded = 0 /\ cmissing = {}
  /\ HistInit /\ PlanIdle /\ ApiIdle /\ ScraperIdle /\ CliIdle
  /\ ledger = TRUE /\ waited = [i \in Ids |-> 0] /\ ObsIdle /\ CmpIdle /\ ReqIdle

NextObserved ==
  \/ CoordStep
  \/ Tick

SpecObserved == InitObserved /\ [][NextObserved]_vars /\ WF_vars(CoordStep)

\* C34: every id the Coordinator observes on a fetched page is passed to
\* EnqueueIfNew (pushListingIds), whatever total the source advertises, a
\* total of 0 or a missing total on the first page included.
C34_ObservedIdsAreEnqueued == observed \subseteq offered

\* C35: with an API key configured the Worker writes the snapshot of an id
\* only after the Ingest call for that payload has succeeded, so that the
\* stored snapshot equals the last payload the Sink accepted: an id with a
\* snapshot has been ingested, and once no Worker is at work on an id the
\* Sink has accepted a payload for, its snapshot is that payload.
C35_SnapshotIsLastAccepted ==
  apiKey =>
    \A i \in Ids :
      /\ snapshot[i] # NoSnap => ingestCount[i] >= 1
      /\ (~Held(i) /\ ingestCount[i] >= 1) => snapshot[i] = sinkPayload[i]

\* C36: with an API key configured the Verifier records MarkVerifiedInactive
\* for an id only after the Sink MarkInactive call for it has succeeded.  A
\* failing MarkInactive ends the attempt with the id not in the
\* verified-inactive set, its last_seen and the verified-inactive counter
\* unchanged, so that FindStale returns the id at every later time.
C36_FailedMarkInactiveLeavesStale ==
  /\ [](apiKey => \A i \in verifiedInactive : inactiveCount[i] >= 1)
  /\ [][\A v \in Verifiers :
          (vid[v] # NoId /\ vid[v] \in verifiedInactive' \ verifiedInactive) =>
            (vpc[v] = "markVerified" /\ (apiKey => inactiveCount[vid[v]] >= 1))]_vars
  /\ [][\A v \in Verifiers :
          (vpc[v] = "markInactive" /\ vpc'[v] = "delay") =>
            /\ inactiveCount' = inactiveCount
            /\ verifiedInactive' = verifiedInactive /\ lastSeen' = lastSeen
            /\ verifiedInactiveCount' = verifiedInactiveCount
            /\ vid[v] \notin verifiedInactive'
            /\ \A t \in now'..MaxTime :
                 vid[v] \in findMissingProperties(processed', lastSeen', verifiedInactive',
                                                 t, StaleAfter)]_vars

\* The Sink has refused the MarkInactive call for a listing that is gone:
\* the Verifier is past the attempt and the id is still stale.
C36_Witness ==
  \E v \in Verifiers :
    /\ apiKey /\ VerifierSaw404(v) /\ vpc[v] = "delay" /\ faults >= 1
    /\ inactiveCount[vid[v]] = 0 /\ vid[v] \notin verifiedInactive
    /\ verifiedInactiveCount[v] = 0
    /\ vid[v] \in findMissingProperties(processed, lastSeen, verifiedInactive, now, StaleAfter)

\* --------------------------------------------- the two detail readers
\* OtodomWorker.fetchPropertyDetail(id) run on the answers of the two URL
\* forms of a listing.
CompareFetch ==
  /\ cmpId # NoId /\ fetched = "none"
  /\ fetched' = fetchPropertyDetail(urlAnswers[1], urlAnswers[2])
  /\ UNCHANGED <<cmpId, urlAnswers, verified, queueVars, envVars, sinkVars, workerVars,
                 verifierVars, coordVars, histVars, planVars, delayVars, obsVars, reqVars,
                 apiVars, scraperVars, cliVars>>

\* MissingPropertyVerifier.verifyProperty(id) run on the same answers.
CompareVerify ==
  /\ cmpId # NoId /\ verified = "none"
  /\ verified' = (IF verifyProperty(urlAnswers[1], urlAnswers[2]) THEN "true" ELSE "false")
  /\ UNCHANGED <<cmpId, urlAnswers, fetched, queueVars, envVars, sinkVars, workerVars,
                 verifierVars, coordVars, histVars, planVars, delayVars, obsVars, reqVars,
                 apiVars, scraperVars, cliVars>>

\* A listing id and what each of its two URL forms answers.
InitCompare ==
  /\ PipelineIdle /\ apiKey = FALSE
  /\ HistInit /\ PlanIdle /\ DelayIdle /\ ObsIdle /\ ReqIdle /\ ApiIdle /\ ScraperIdle /\ CliIdle
  /\ cmpId \in Ids
  /\ urlAnswers \in Responses \X Responses
  /\ fetched = "none" /\ verified = "none"

NextCompare == CompareFetch \/ CompareVerify

SpecCompare == InitCompare /\ [][NextCompare]_vars

\* C37: for the same answers of the two URL forms the Verifier never
\* declares inactive an item the Worker can fetch: whenever
\* fetchPropertyDetail returns a payload, verifyProperty returns true, also
\* when the first URL form answers 404 and the second valid ad data.
C37_FetchableIsVerifiedActive ==
  (fetched = "found" /\ verified # "none") => verified = "true"

\* C38: in scrapeCity each distinct listing id adds at most 1 to
\* result.scraped (and one entry to result.properties, pushed in the same
\* statement sequence) and no id is counted both in result.scraped and in
\* result.failed, also when sendToCoreService fails and the id is retried:
\* result.scraped + result.failed never exceeds the number of distinct ids
\* the city collected.
C38_CountedOncePerId ==
  \A c \in Cities :
    resultScraped[c] + resultFailed[c] <= Cardinality(SeqToSet(allIds[c]))

\* C39: the Worker's local counters satisfy processedCount = changedCount +
\* unchangedCount after every call of processListing, whatever its outcome
\* (a queue error raised by StoreSnapshot or MarkProcessed included): the
\* equation holds whenever the Worker is not inside processListing.
C39_ProcessedIsChangedPlusUnchanged ==
  \A w \in Workers :
    ~Claimed(w) => processedCount[w] = changedCount[w] + unchangedCount[w]

\* ------------------------------------------------ BaseApiClient.request
\* The largest retryAttempts a configuration is given here.
MaxRetryAttempts == 3

\* this.config.retryAttempts || 3: the fallback for a falsy value.
DefaultRetryAttempts == 3

\* What one fetch of request() ends in: a 2xx response whose body parses, a
\* 2xx response whose body does not parse, HTTP 429, another status that is
\* not ok, or a rejected fetch (network error, timeout).
FetchResults == {"ok", "unparsable", "429", "status", "network"}

\* attempt < (this.config.retryAttempts || 3)
mayRetry(conf, att) == att < (IF conf = 0 THEN DefaultRetryAttempts ELSE conf)

\* request(): checkRateLimit, buildUrl, buildHeaders, await fetch(url, ...)
\* and what follows the response up to the next await: the return of the
\* parsed response, the 429 branch with its delay(retryAfter * 1000), or the
\* catch block with its delay(retryDelayMs * 2^attempt) or its rethrow.
RequestFetch ==
  /\ rpc = "fetch"
  /\ requests' = requests + 1
  /\ \E r \in FetchResults :
       /\ lastResponse' = r
       /\ rpc' = CASE r = "ok" -> "returned"
                   [] r = "429" /\ mayRetry(retryAttempts, attempt) -> "retryAfter"
                   [] mayRetry(retryAttempts, attempt) -> "retryDelay"
                   [] OTHER -> "thrown"
  /\ UNCHANGED <<retryAttempts, attempt, queueVars, envVars, sinkVars, workerVars,
                 verifierVars, coordVars, histVars, planVars, delayVars, obsVars, cmpVars,
                 apiVars, scraperVars, cliVars>>

\* 429 branch: the delay is over; return this.request(..., attempt + 1).  The
\* promise of the inner call is returned without await, so its rejection
\* passes the catch block of this call by.
RequestRetryAfter ==
  /\ rpc = "retryAfter"
  /\ attempt' = attempt + 1
  /\ rpc' = "fetch"
  /\ UNCHANGED <<retryAttempts, requests, lastResponse, queueVars, envVars, sinkVars,
                 workerVars, verifierVars, coordVars, histVars, planVars, delayVars, obsVars,
                 cmpVars, apiVars, scraperVars, cliVars>>

\* catch block: the delay is over; return this.request(..., attempt + 1)
RequestRetryDelay ==
  /\ rpc = "retryDelay"
  /\ attempt' = attempt + 1
  /\ rpc' = "fetch"
  /\ UNCHANGED <<retryAttempts, requests, lastResponse, queueVars, envVars, sinkVars,
                 workerVars, verifierVars, coordVars, histVars, planVars, delayVars, obsVars,
                 cmpVars, apiVars, scraperVars, cliVars>>

\* A client constructed with some retryAttempts makes one top-level call of
\* request (attempt = 0).
InitRequest ==
  /\ PipelineIdle /\ apiKey = FALSE
  /\ HistInit /\ PlanIdle /\ DelayIdle /\ ObsIdle /\ CmpIdle /\ ApiIdle /\ ScraperIdle /\ CliIdle
  /\ retryAttempts \in 0..MaxRetryAttempts
  /\ rpc = "fetch" /\ attempt = 0 /\ requests = 0 /\ lastResponse = "none"

NextRequest == RequestFetch \/ RequestRetryAfter \/ RequestRetryDelay

SpecRequest == InitRequest /\ [][NextRequest]_vars

====
